---- MODULE Spec2Model ----
(***************************************************************************)
(* State-machine model of the AI Employee core:                            *)
(*   - security_config.py : _RateLimitBucket (sliding window), audit_log   *)
(*   - ralph_loop.py      : RalphLoop.run (iterative task runner)          *)
(*   - orchestrator.py    : Orchestrator scan / dispatch / schedule loop   *)
(*   - linkedin_mcp.py    : handle_create_post                             *)
(*   - base_watcher.py, filesystem_watcher.py : the drop-folder watcher    *)
(* Each subsystem has its own specification; the variables of the other    *)
(* subsystems stay at their constructed values.                            *)
(***************************************************************************)
EXTENDS Integers, Sequences, FiniteSets, TLC

VARIABLES
    \* ---- _RateLimitBucket (security_config.py) ----
    max_count,        \* bucket.max_count
    window_seconds,   \* bucket.window_seconds
    timestamps,       \* bucket._timestamps, a sequence of clock readings
    rl_clock,         \* time.time() as seen by the rate limiter's callers
    rl_pc,            \* per thread: "idle", "allow" (clock read, waiting for the lock), "count"
    rl_now,           \* per thread: the local variable `now`
    allowLog,         \* history: <<now, result>> of every finished allow() call
    admitAt,          \* history: the clock at the moment each admitted call was admitted
    overlapped,       \* history: TRUE once two calls were in flight together
    crl,              \* history: the last check_rate_limit call that was entered or returned
    \* ---- audit_log (security_config.py) ----
    audit_day,        \* the current UTC day, datetime.now(timezone.utc) as a day number
    audit_writable,   \* whether open(audit_file, "a") can succeed (directory writable)
    audit_lines,      \* per UTC day: number of lines in audit_<day>.jsonl
    audit_calls,      \* history: number of audit_log calls made
    audit_last,       \* history: what the last audit_log call did
    \* ---- RalphLoop (ralph_loop.py) ----
    r_arg,            \* the max_iterations argument of __init__
    r_max,            \* self.max_iterations
    r_dry,            \* self.dry_run
    r_desc_na,        \* whether "Needs_Action" occurs in self.task_description
    r_running,        \* self._running
    r_pc,             \* position of run(): "init", "loop", "exec", "sleep", "done"
    r_iter,           \* the loop variable `iteration`
    r_iterations,     \* self.iterations: number and success of each IterationRecord
    r_completed,      \* self.completed
    r_task_file,      \* directory self.task_file points into: "in_progress" or "done"
    r_result,         \* what run() returned: "none", "true", "false", "raised"
    fs_inprog,        \* In_Progress/<task_filename>: NoFile or its frontmatter
    fs_done,          \* Done/<task_filename>: NoFile or its frontmatter
    fs_inbox_md,      \* whether Needs_Action holds any *.md file
    r_alerts,         \* alert files written by _create_alert, each the number of entries it lists
    r_check,          \* history: the last _check_completion evaluation
    r_marker,         \* history: the stdout of the last executor run held TASK_COMPLETE
    \* ---- Orchestrator (orchestrator.py) ----
    o_dry,                  \* self.dry_run
    o_running,              \* self._running
    o_pc,                   \* position of run(): see OrchNext
    dir_needs_action,       \* the *.md files currently in Needs_Action (paths)
    dir_approved,           \* the *.md files currently in Approved (paths)
    known_needs_action,     \* self._known_needs_action
    known_approved,         \* self._known_approved
    items,                  \* self._items: file name -> tracker
    total_scans,            \* self._total_scans
    total_errors,           \* self._total_errors
    last_error,             \* self._last_error
    last_dashboard_update,  \* self._last_dashboard_update
    last_briefing_check,    \* self._last_briefing_check
    o_now,                  \* the wall clock, in units of DASHBOARD_INTERVAL seconds
    o_skill,                \* _run_skill_with_retry: skill_name of the call in progress
    o_cont,                 \* the call site _run_skill_with_retry returns to
    o_attempt,              \* number of the _run_skill attempt in flight
    o_success,              \* the value _run_skill_with_retry returned
    o_batch,                \* new_files / approved_files of the batch being handled
    alerts_written,         \* number of alert files _create_alert has written
    o_call,                 \* history: the _run_skill_with_retry call in progress
    na_reported,            \* history: paths reported new in Needs_Action, present ever since
    ap_reported,            \* history: paths reported new in Approved, present ever since
    brief_evals,            \* history: dates of the evaluations made on BRIEFING_DAY at BRIEFING_HOUR
    brief_fires,            \* history: dates on which _should_run_briefing returned True
    file_events,            \* history: number of file arrivals and departures so far
    health,                 \* the content of .claude/health.json
    stop_received,          \* history: TRUE once _shutdown has run
    na_initial,             \* history: paths of the initial snapshot of Needs_Action, present ever since
    ap_initial,             \* history: paths of the initial snapshot of Approved, present ever since
    \* linkedin_mcp
    li_dry,                 \* DRY_RUN
    post_calls,             \* history: number of handle_create_post calls
    post_last,              \* history: the last handle_create_post call and what it did
    \* base_watcher / filesystem_watcher
    w_pc,                   \* where BaseWatcher.run is
    w_running,              \* self._running
    error_count,            \* self._error_count
    pending_files,          \* _DropHandler.pending_files
    w_files,                \* check_for_updates: the local list `files`
    w_created,              \* history: number of file-created events on_created has recorded
    w_removed,              \* history: events whose file left the drop folder before a poll returned it
    w_returned,             \* history: the events returned by check_for_updates calls, in order
    w_cycles,               \* history: per cycle of run(), whether it raised
    w_stop_received         \* history: TRUE once _shutdown has run

rateVars == <<max_count, window_seconds, timestamps, rl_clock, rl_pc, rl_now,
              allowLog, admitAt, overlapped, crl>>

auditVars == <<audit_day, audit_writable, audit_lines, audit_calls, audit_last>>

vars == <<max_count, window_seconds, timestamps, rl_clock, rl_pc, rl_now,
          allowLog, admitAt, overlapped, crl,
          audit_day, audit_writable, audit_lines, audit_calls, audit_last,
          r_arg, r_max, r_dry, r_desc_na, r_running, r_pc, r_iter, r_iterations,
          r_completed, r_task_file, r_result, fs_inprog, fs_done, fs_inbox_md,
          r_alerts, r_check, r_marker,
          o_dry, o_running, o_pc, dir_needs_action, dir_approved,
          known_needs_action, known_approved, items, total_scans, total_errors,
          last_error, last_dashboard_update, last_briefing_check, o_now, o_skill,
          o_cont, o_attempt, o_success, o_batch, alerts_written, o_call,
          na_reported, ap_reported, brief_evals, brief_fires, file_events,
          health, stop_received, na_initial, ap_initial,
          li_dry, post_calls, post_last,
          w_pc, w_running, error_count, pending_files, w_files, w_created,
          w_removed, w_returned, w_cycles, w_stop_received>>

watchVars == <<w_pc, w_running, error_count, pending_files, w_files, w_created,
               w_removed, w_returned, w_cycles, w_stop_received>>

postVars == <<li_dry, post_calls, post_last>>

orchVars == <<o_dry, o_running, o_pc, dir_needs_action, dir_approved,
              known_needs_action, known_approved, items, total_scans, total_errors,
              last_error, last_dashboard_update, last_briefing_check, o_now, o_skill,
              o_cont, o_attempt, o_success, o_batch, alerts_written, o_call,
              na_reported, ap_reported, brief_evals, brief_fires, file_events,
          health, stop_received, na_initial, ap_initial>>

ralphVars == <<r_arg, r_max, r_dry, r_desc_na, r_running, r_pc, r_iter, r_iterations,
               r_completed, r_task_file, r_result, fs_inprog, fs_done, fs_inbox_md,
               r_alerts, r_check, r_marker>>

(***************************************************************************)
(* Bounds of the model.                                                    *)
(***************************************************************************)
MaxCount  == 2     \* largest max_count a bucket is built with
MaxWindow == 2     \* largest window_seconds a bucket is built with
MaxTime   == 3     \* the rate limiter's clock runs 0..MaxTime
MaxCalls  == 4     \* allow() calls per behaviour
MaxAuditDay   == 2 \* the audit clock runs over UTC days 0..MaxAuditDay
MaxAuditCalls == 4 \* audit_log calls per behaviour
MaxIterArg    == 2 \* largest --max-iterations override given to the task runner
MaxTicks      == 2 \* orchestrator scan cycles per behaviour
MaxAlerts     == 2 \* alert files the orchestrator writes per behaviour
MaxElapsed    == 1 \* clock units that pass while the orchestrator runs
MaxFileEvents == 2 \* file arrivals and departures per behaviour
MaxPosts == 3      \* handle_create_post calls per behaviour
MaxDropEvents == 2    \* file-created events the observer records
MaxCycles == 11       \* cycles of BaseWatcher.run
MaxCleanCycles == 2   \* of which cycles that do not raise

Threads == {"t1", "t2"}

(***************************************************************************)
(* _RateLimitBucket                                                        *)
(***************************************************************************)

\* Mutant of Purge: the comparison keeps nothing out (no expiry at all).
PurgeNever(ts, cutoff) == ts

\* [t for t in self._timestamps if t > cutoff]
Purge(ts, cutoff) ==
    LET Keep(t) == t > cutoff IN SelectSeq(ts, Keep)

InFlight == {c \in Threads : rl_pc[c] # "idle"}

\* The action types check_rate_limit is called with: one that has a bucket in
\* self._rate_limiters (the model's bucket is its bucket) and one that has none.
ActionTypes == {"social_post", "file_op"}

NoCheckCall == [type |-> "none", res |-> "none"]

\* Mutant of BucketOf: an action type without a bucket is given the bucket.
BucketOfDefault(action_type) == "bucket"

\* self._rate_limiters.get(action_type)
BucketOf(action_type) ==
    IF action_type = "social_post" THEN "bucket" ELSE "None"

\* Mutant of AllowLocked: the admission test is off by one.
AllowLockedOffByOne(c) ==
    /\ rl_pc[c] = "allow"
    /\ LET kept == Purge(timestamps, rl_now[c] - window_seconds)
           ok   == ~(Len(kept) > max_count)
       IN /\ timestamps' = IF ok THEN Append(kept, rl_now[c]) ELSE kept
          /\ allowLog' = Append(allowLog, [now |-> rl_now[c], res |-> ok])
          /\ admitAt' = IF ok THEN Append(admitAt, rl_clock) ELSE admitAt
    /\ rl_pc' = [rl_pc EXCEPT ![c] = "idle"]
    /\ rl_now' = [rl_now EXCEPT ![c] = 0]
    /\ UNCHANGED <<max_count, window_seconds, rl_clock, overlapped>>

RateInit ==
    /\ max_count \in 0..MaxCount
    /\ window_seconds \in 1..MaxWindow
    /\ timestamps = <<>>
    /\ rl_clock = 0
    /\ rl_pc = [c \in Threads |-> "idle"]
    /\ rl_now = [c \in Threads |-> 0]
    /\ allowLog = <<>>
    /\ admitAt = <<>>
    /\ overlapped = FALSE
    /\ crl = NoCheckCall

RateIdle ==
    /\ max_count = 1
    /\ window_seconds = 1
    /\ timestamps = <<>>
    /\ rl_clock = 0
    /\ rl_pc = [c \in Threads |-> "idle"]
    /\ rl_now = [c \in Threads |-> 0]
    /\ allowLog = <<>>
    /\ admitAt = <<>>
    /\ overlapped = FALSE
    /\ crl = NoCheckCall

\* time passes
RateClock ==
    /\ rl_clock < MaxTime
    /\ rl_clock' = rl_clock + 1
    /\ UNCHANGED <<max_count, window_seconds, timestamps, rl_pc, rl_now,
                   allowLog, admitAt, overlapped>>

\* allow(), before the lock: now = time.time(); cutoff = now - window_seconds
AllowRead(c) ==
    /\ rl_pc[c] = "idle"
    /\ Len(allowLog) + Cardinality({d \in Threads : rl_pc[d] \in {"allow", "crl_allow"}})
           < MaxCalls
    /\ rl_pc' = [rl_pc EXCEPT ![c] = "allow"]
    /\ rl_now' = [rl_now EXCEPT ![c] = rl_clock]
    /\ overlapped' = (overlapped \/ InFlight # {})
    /\ UNCHANGED <<max_count, window_seconds, timestamps, rl_clock, allowLog, admitAt>>

\* Mutant of AllowLocked: a denied call evicts the oldest timestamp.
AllowLockedEvictsOnDeny(c) ==
    /\ rl_pc[c] = "allow"
    /\ LET kept == Purge(timestamps, rl_now[c] - window_seconds)
           ok   == ~(Len(kept) >= max_count)
       IN /\ timestamps' = IF ok THEN Append(kept, rl_now[c])
                           ELSE IF kept = <<>> THEN kept ELSE Tail(kept)
          /\ allowLog' = Append(allowLog, [now |-> rl_now[c], res |-> ok])
          /\ admitAt' = IF ok THEN Append(admitAt, rl_clock) ELSE admitAt
    /\ rl_pc' = [rl_pc EXCEPT ![c] = "idle"]
    /\ rl_now' = [rl_now EXCEPT ![c] = 0]
    /\ UNCHANGED <<max_count, window_seconds, rl_clock, overlapped>>

\* allow(), the critical section under self._lock: purge, test, append
AllowLocked(c) ==
    /\ rl_pc[c] = "allow"
    /\ LET kept == Purge(timestamps, rl_now[c] - window_seconds)
           ok   == ~(Len(kept) >= max_count)
       IN /\ timestamps' = IF ok THEN Append(kept, rl_now[c]) ELSE kept
          /\ allowLog' = Append(allowLog, [now |-> rl_now[c], res |-> ok])
          /\ admitAt' = IF ok THEN Append(admitAt, rl_clock) ELSE admitAt
    /\ rl_pc' = [rl_pc EXCEPT ![c] = "idle"]
    /\ rl_now' = [rl_now EXCEPT ![c] = 0]
    /\ UNCHANGED <<max_count, window_seconds, rl_clock, overlapped>>

\* current_count(), before the lock
CountRead(c) ==
    /\ rl_pc[c] = "idle"
    /\ rl_pc' = [rl_pc EXCEPT ![c] = "count"]
    /\ rl_now' = [rl_now EXCEPT ![c] = rl_clock]
    /\ overlapped' = (overlapped \/ InFlight # {})
    /\ UNCHANGED <<max_count, window_seconds, timestamps, rl_clock, allowLog, admitAt>>

\* current_count(), the critical section: purge and return the length
CountLocked(c) ==
    /\ rl_pc[c] = "count"
    /\ timestamps' = Purge(timestamps, rl_now[c] - window_seconds)
    /\ rl_pc' = [rl_pc EXCEPT ![c] = "idle"]
    /\ rl_now' = [rl_now EXCEPT ![c] = 0]
    /\ UNCHANGED <<max_count, window_seconds, rl_clock, allowLog, admitAt, overlapped>>

\* check_rate_limit(action_type), up to the lock of bucket.allow(): without
\* a bucket it returns True at once.
CheckRateLimit(c, action_type) ==
    /\ rl_pc[c] = "idle"
    /\ IF BucketOf(action_type) = "None"
       THEN /\ crl' = [type |-> action_type, res |-> "true"]
            /\ UNCHANGED <<rl_pc, rl_now, overlapped>>
       ELSE /\ Len(allowLog)
                 + Cardinality({d \in Threads : rl_pc[d] \in {"allow", "crl_allow"}})
                 < MaxCalls
            /\ crl' = [type |-> action_type, res |-> "pending"]
            /\ rl_pc' = [rl_pc EXCEPT ![c] = "crl_allow"]
            /\ rl_now' = [rl_now EXCEPT ![c] = rl_clock]
            /\ overlapped' = (overlapped \/ InFlight # {})
    /\ UNCHANGED <<max_count, window_seconds, timestamps, rl_clock, allowLog, admitAt>>

\* check_rate_limit: the critical section of bucket.allow() and its result;
\* a denied call goes on to the warning.
CheckRateLimitLocked(c) ==
    /\ rl_pc[c] = "crl_allow"
    /\ LET kept == Purge(timestamps, rl_now[c] - window_seconds)
           ok   == ~(Len(kept) >= max_count)
       IN /\ timestamps' = IF ok THEN Append(kept, rl_now[c]) ELSE kept
          /\ allowLog' = Append(allowLog, [now |-> rl_now[c], res |-> ok])
          /\ admitAt' = IF ok THEN Append(admitAt, rl_clock) ELSE admitAt
          /\ crl' = [type |-> CHOOSE t \in ActionTypes : BucketOf(t) = "bucket",
                     res |-> IF ok THEN "true" ELSE "false"]
          /\ rl_pc' = [rl_pc EXCEPT ![c] = IF ok THEN "idle" ELSE "crl_denied"]
    /\ rl_now' = [rl_now EXCEPT ![c] = 0]
    /\ UNCHANGED <<max_count, window_seconds, rl_clock, overlapped>>

\* check_rate_limit, denied: the warning calls bucket.current_count(), which
\* reads the clock again
CheckRateLimitWarn(c) ==
    /\ rl_pc[c] = "crl_denied"
    /\ rl_pc' = [rl_pc EXCEPT ![c] = "count"]
    /\ rl_now' = [rl_now EXCEPT ![c] = rl_clock]
    /\ UNCHANGED <<max_count, window_seconds, timestamps, rl_clock, allowLog, admitAt,
                   overlapped, crl>>

RateNext ==
    \/ RateClock /\ UNCHANGED <<crl, auditVars, ralphVars, orchVars, postVars, watchVars>>
    \/ \E c \in Threads : AllowRead(c) /\ UNCHANGED <<crl, auditVars, ralphVars, orchVars, postVars, watchVars>>
    \/ \E c \in Threads : AllowLocked(c) /\ UNCHANGED <<crl, auditVars, ralphVars, orchVars, postVars, watchVars>>
    \/ \E c \in Threads : CountRead(c) /\ UNCHANGED <<crl, auditVars, ralphVars, orchVars, postVars, watchVars>>
    \/ \E c \in Threads : CountLocked(c) /\ UNCHANGED <<crl, auditVars, ralphVars, orchVars, postVars, watchVars>>
    \/ \E c \in Threads, action_type \in ActionTypes :
           CheckRateLimit(c, action_type) /\ UNCHANGED <<auditVars, ralphVars, orchVars, postVars, watchVars>>
    \/ \E c \in Threads :
           CheckRateLimitLocked(c) /\ UNCHANGED <<auditVars, ralphVars, orchVars, postVars, watchVars>>
    \/ \E c \in Threads :
           CheckRateLimitWarn(c) /\ UNCHANGED <<auditVars, ralphVars, orchVars, postVars, watchVars>>

(***************************************************************************)
(* audit_log                                                               *)
(***************************************************************************)

\* What json.dumps(entry) does with the metadata argument: "none" (None or an
\* empty dict: the key is left out), "json" (a dict of JSON values) and
\* "not_json" (a dict holding a value json cannot encode: a set, a datetime, a
\* Path ...), for which json.dumps raises TypeError.
MetadataKinds == {"none", "json", "not_json"}
AuditResults  == {"success", "failed", "rate_limited", "dry_run"}
DryRunArgs    == {"None", "True", "False"}

NoAuditCall == [result |-> "-", dry_run |-> "-", metadata |-> "-",
                writable |-> FALSE, appended |-> 0, outcome |-> "-"]

AuditInit ==
    /\ audit_day = 0
    /\ audit_writable \in BOOLEAN
    /\ audit_lines = [d \in 0..MaxAuditDay |-> 0]
    /\ audit_calls = 0
    /\ audit_last = NoAuditCall

AuditIdle ==
    /\ audit_day = 0
    /\ audit_writable = TRUE
    /\ audit_lines = [d \in 0..MaxAuditDay |-> 0]
    /\ audit_calls = 0
    /\ audit_last = NoAuditCall

\* midnight UTC passes
AuditNextDay ==
    /\ audit_day < MaxAuditDay
    /\ audit_day' = audit_day + 1
    /\ UNCHANGED <<audit_writable, audit_lines, audit_calls, audit_last>>

\* the audit directory becomes unwritable (removed, read-only, disk full) or writable again
AuditToggleWritable ==
    /\ audit_writable' = ~audit_writable
    /\ UNCHANGED <<audit_day, audit_lines, audit_calls, audit_last>>

\* The try block of audit_log:
\*     with open(audit_file, "a") as f: f.write(json.dumps(entry) + "\n")
\* except OSError -> logged.  open() comes first; json.dumps runs inside the
\* with-block and its TypeError is not an OSError.
AuditWrite(writable, metadata) ==
    IF ~writable THEN [appended |-> 0, outcome |-> "returned"]
    ELSE IF metadata = "not_json" THEN [appended |-> 0, outcome |-> "raised"]
    ELSE [appended |-> 1, outcome |-> "returned"]

\* audit_log(action_type, actor, target, result, dry_run, metadata)
AuditLog(result, dry_run, metadata) ==
    /\ audit_calls < MaxAuditCalls
    /\ LET w == AuditWrite(audit_writable, metadata)
       IN /\ audit_lines' = [audit_lines EXCEPT ![audit_day] = @ + w.appended]
          /\ audit_last' = [result |-> result, dry_run |-> dry_run,
                            metadata |-> metadata, writable |-> audit_writable,
                            appended |-> w.appended, outcome |-> w.outcome]
    /\ audit_calls' = audit_calls + 1
    /\ UNCHANGED <<audit_day, audit_writable>>

AuditNext ==
    \/ AuditNextDay /\ UNCHANGED <<rateVars, ralphVars, orchVars, postVars, watchVars>>
    \/ AuditToggleWritable /\ UNCHANGED <<rateVars, ralphVars, orchVars, postVars, watchVars>>
    \/ \E r \in AuditResults, d \in DryRunArgs, m \in MetadataKinds :
           AuditLog(r, d, m) /\ UNCHANGED <<rateVars, ralphVars, orchVars, postVars, watchVars>>


(***************************************************************************)
(* linkedin_mcp: handle_create_post                                        *)
(***************************************************************************)
MAX_POST_CHARS == 3000

\* The text argument: its length and whether text.strip() is empty.
PostTexts ==
    {[len |-> 0, blank |-> TRUE], [len |-> 1, blank |-> TRUE],
     [len |-> 1, blank |-> FALSE], [len |-> MAX_POST_CHARS, blank |-> FALSE],
     [len |-> MAX_POST_CHARS + 1, blank |-> FALSE],
     [len |-> MAX_POST_CHARS + 1, blank |-> TRUE]}

\* LinkedInClient().create_post(text): returns, raises requests.HTTPError, or
\* raises anything else (no token, connection error ...)
ClientOutcomes == {"published", "http_error", "error"}

NoPost == [outcome |-> "none", audits |-> 0]

\* the two input checks at the top of handle_create_post
ValidatePost(text) ==
    IF text.len = 0 \/ text.blank THEN "empty"
    ELSE IF text.len > MAX_POST_CHARS THEN "too_long"
    ELSE "ok"

PostInit ==
    /\ li_dry \in BOOLEAN
    /\ post_calls = 0
    /\ post_last = NoPost

PostIdle ==
    /\ li_dry = TRUE
    /\ post_calls = 0
    /\ post_last = NoPost

\* The result argument of the audit_log call that a handle_create_post call
\* reaches, "none" when it reaches none.  _log_to_vault precedes audit_log on
\* every path but the rate-limited one, and is outside the try block in the
\* dry-run path and inside the except handlers in the failure paths: when it
\* raises (log_ok = FALSE) the exception leaves handle_create_post.
PostAuditResult(valid, allowed, dry, log_ok, client) ==
    IF valid # "ok" THEN "none"
    ELSE IF ~allowed THEN "rate_limited"
    ELSE IF ~log_ok THEN "none"
    ELSE IF dry THEN "dry_run"
    ELSE IF client = "published" THEN "success"
    ELSE "failed"

\* Mutant of PostOutcome: DRY_RUN is tested before the rate limit.
PostOutcomeDryRunFirst(valid, allowed, dry, log_ok, client) ==
    IF valid # "ok" THEN valid
    ELSE IF dry THEN (IF log_ok THEN "dry_run" ELSE "raised")
    ELSE IF ~allowed THEN "rate_limited"
    ELSE IF ~log_ok THEN "raised"
    ELSE IF client = "published" THEN "published"
    ELSE "failed"

\* What the caller of handle_create_post gets
PostOutcome(valid, allowed, dry, log_ok, client) ==
    IF valid # "ok" THEN valid
    ELSE IF ~allowed THEN "rate_limited"
    ELSE IF ~log_ok THEN "raised"
    ELSE IF dry THEN "dry_run"
    ELSE IF client = "published" THEN "published"
    ELSE "failed"

\* handle_create_post(text), called by the single-threaded MCP request loop
HandleCreatePost(text, client, log_ok) ==
    /\ post_calls < MaxPosts
    /\ Len(allowLog) < MaxCalls
    /\ \A c \in Threads : rl_pc[c] = "idle"
    /\ LET valid   == ValidatePost(text)
           kept    == Purge(timestamps, rl_clock - window_seconds)
           allowed == ~(Len(kept) >= max_count)
           result  == PostAuditResult(valid, allowed, li_dry, log_ok, client)
       IN /\ IF valid = "ok"
             THEN /\ timestamps' = IF allowed THEN Append(kept, rl_clock) ELSE kept
                  /\ allowLog' = Append(allowLog, [now |-> rl_clock, res |-> allowed])
                  /\ admitAt' = IF allowed THEN Append(admitAt, rl_clock) ELSE admitAt
                  /\ crl' = [type |-> "social_post",
                             res |-> IF allowed THEN "true" ELSE "false"]
             ELSE UNCHANGED <<timestamps, allowLog, admitAt, crl>>
          /\ IF result = "none"
             THEN UNCHANGED auditVars
             ELSE AuditLog(result, IF result = "success" THEN "False" ELSE "None", "json")
          /\ post_last' = [outcome |-> PostOutcome(valid, allowed, li_dry, log_ok, client),
                           audits |-> IF result = "none" THEN 0 ELSE 1]
    /\ post_calls' = post_calls + 1
    /\ UNCHANGED <<max_count, window_seconds, rl_clock, rl_pc, rl_now, overlapped, li_dry>>

PostNext ==
    \/ RateClock /\ UNCHANGED <<crl, auditVars, ralphVars, orchVars, postVars, watchVars>>
    \/ AuditNextDay /\ UNCHANGED <<rateVars, ralphVars, orchVars, postVars, watchVars>>
    \/ AuditToggleWritable /\ UNCHANGED <<rateVars, ralphVars, orchVars, postVars, watchVars>>
    \/ \E text \in PostTexts, client \in ClientOutcomes, log_ok \in BOOLEAN :
           HandleCreatePost(text, client, log_ok) /\ UNCHANGED <<ralphVars, orchVars, watchVars>>

(***************************************************************************)
(* RalphLoop: the iterative task runner                                    *)
(***************************************************************************)
DEFAULT_MAX_ITERATIONS == 10

NoFile == [status |-> "absent", iteration |-> 0, entries |-> 0]

NoCheck == [evaluated |-> FALSE, done_exists |-> FALSE, marker |-> FALSE,
            inbox_empty |-> FALSE, desc_na |-> FALSE, result |-> FALSE,
            method |-> "none"]

\* The max_iterations argument: <<>> is None (no override), <<n>> the override n.
MaxIterationsArgs == {<<>>} \cup {<<n>> : n \in 0..MaxIterArg}

\* __init__: self.max_iterations = max_iterations or self.DEFAULT_MAX_ITERATIONS
\* (None and 0 are both falsy)
EffectiveMax(arg) ==
    IF arg = <<>> \/ arg = <<0>> THEN DEFAULT_MAX_ITERATIONS ELSE arg[1]

\* Mutant of InRange: the loop stops one iteration early.
InRangeShort(i, n) == 1 <= i /\ i < n

\* for iteration in range(1, self.max_iterations + 1)
InRange(i, n) == 1 <= i /\ i <= n

\* Mutant of CheckCompletion: the marker is tested first and the done file last.
CheckCompletionMarkerFirst(done_exists, marker, inbox_empty, desc_na) ==
    IF marker THEN [result |-> TRUE, method |-> "marker"]
    ELSE IF inbox_empty /\ desc_na THEN [result |-> TRUE, method |-> "inbox"]
    ELSE IF done_exists THEN [result |-> TRUE, method |-> "done_file"]
    ELSE [result |-> FALSE, method |-> "none"]

\* Mutant of CheckCompletion: the empty inbox counts whatever the description says.
CheckCompletionAnyDescription(done_exists, marker, inbox_empty, desc_na) ==
    IF done_exists THEN [result |-> TRUE, method |-> "done_file"]
    ELSE IF marker THEN [result |-> TRUE, method |-> "marker"]
    ELSE IF inbox_empty THEN [result |-> TRUE, method |-> "inbox"]
    ELSE [result |-> FALSE, method |-> "none"]

\* _check_completion: the three signals in the order the code tests them.
\* "method" is the branch that returned (the branch that logs, and for
\* "done_file" the one that repoints self.task_file).
CheckCompletion(done_exists, marker, inbox_empty, desc_na) ==
    IF done_exists THEN [result |-> TRUE, method |-> "done_file"]
    ELSE IF marker THEN [result |-> TRUE, method |-> "marker"]
    ELSE IF inbox_empty /\ desc_na THEN [result |-> TRUE, method |-> "inbox"]
    ELSE [result |-> FALSE, method |-> "none"]

\* _update_task_file(iteration, summary, status): the file system and
\* self.task_file after the call.  A "completed" write through a task_file that
\* still points into In_Progress unlinks that file and writes into Done.
UpdateTaskFile(ip, dn, tf, iteration, status, entries) ==
    LET content == [status |-> status, iteration |-> iteration, entries |-> entries]
        moves   == status = "completed" /\ tf = "in_progress"
        target  == IF moves THEN "done" ELSE tf
    IN [ip |-> IF moves THEN NoFile
               ELSE IF target = "in_progress" THEN content ELSE ip,
        dn |-> IF target = "done" THEN content ELSE dn,
        tf |-> target]

RalphInit ==
    /\ r_arg \in MaxIterationsArgs
    /\ r_max = EffectiveMax(r_arg)
    /\ r_dry \in BOOLEAN
    /\ r_desc_na \in BOOLEAN
    /\ r_running = TRUE
    /\ r_pc = "init"
    /\ r_iter = 0
    /\ r_iterations = <<>>
    /\ r_completed = FALSE
    /\ r_task_file = "in_progress"
    /\ r_result = "none"
    /\ fs_inprog = NoFile
    /\ fs_done = NoFile
    /\ fs_inbox_md \in BOOLEAN
    /\ r_alerts = <<>>
    /\ r_check = NoCheck
    /\ r_marker = FALSE

RalphIdle ==
    /\ r_arg = <<>>
    /\ r_max = DEFAULT_MAX_ITERATIONS
    /\ r_dry = TRUE
    /\ r_desc_na = FALSE
    /\ r_running = TRUE
    /\ r_pc = "init"
    /\ r_iter = 0
    /\ r_iterations = <<>>
    /\ r_completed = FALSE
    /\ r_task_file = "in_progress"
    /\ r_result = "none"
    /\ fs_inprog = NoFile
    /\ fs_done = NoFile
    /\ fs_inbox_md = FALSE
    /\ r_alerts = <<>>
    /\ r_check = NoCheck
    /\ r_marker = FALSE

\* _shutdown: SIGINT / SIGTERM handler
RalphShutdown ==
    /\ r_pc # "done"
    /\ r_running
    /\ r_running' = FALSE
    /\ UNCHANGED <<r_arg, r_max, r_marker, r_dry, r_desc_na, r_pc, r_iter, r_iterations, r_completed,
                   r_task_file, r_result, fs_inprog, fs_done, fs_inbox_md, r_alerts,
                   r_check>>

\* The external agent (or a person) moves the task file from In_Progress to Done
\* while the executor runs or the loop sleeps.
AgentMovesTaskFile ==
    /\ r_pc \in {"exec", "sleep"}
    /\ fs_inprog # NoFile
    /\ fs_done' = fs_inprog
    /\ fs_inprog' = NoFile
    /\ UNCHANGED <<r_arg, r_max, r_marker, r_dry, r_desc_na, r_running, r_pc, r_iter, r_iterations,
                   r_completed, r_task_file, r_result, fs_inbox_md, r_alerts, r_check>>

\* Files arrive in, or leave, Needs_Action while the executor runs.
InboxChanges ==
    /\ r_pc = "exec"
    /\ fs_inbox_md' = ~fs_inbox_md
    /\ UNCHANGED <<r_arg, r_max, r_marker, r_dry, r_desc_na, r_running, r_pc, r_iter, r_iterations,
                   r_completed, r_task_file, r_result, fs_inprog, fs_done, r_alerts,
                   r_check>>

\* run(), up to the loop: _create_task_file()
RalphStart ==
    /\ r_pc = "init"
    /\ fs_inprog' = [status |-> "in_progress", iteration |-> 0, entries |-> 0]
    /\ r_iter' = 1
    /\ r_pc' = "loop"
    /\ UNCHANGED <<r_arg, r_max, r_marker, r_dry, r_desc_na, r_running, r_iterations, r_completed,
                   r_task_file, r_result, fs_done, fs_inbox_md, r_alerts, r_check>>

\* Mutant of RalphLoopTop: an interrupted run writes the alert file too.
RalphLoopTopAlertsOnInterrupt ==
    /\ r_pc = "loop"
    /\ IF ~InRange(r_iter, r_max)
       THEN LET u == UpdateTaskFile(fs_inprog, fs_done, r_task_file, r_max,
                                    "max_iterations_exceeded", Len(r_iterations))
            IN /\ fs_inprog' = u.ip
               /\ fs_done' = u.dn
               /\ r_task_file' = u.tf
               /\ r_alerts' = Append(r_alerts, Len(r_iterations))
               /\ fs_inbox_md' = TRUE
               /\ r_result' = "false"
               /\ r_pc' = "done"
       ELSE IF ~r_running
       THEN LET u == UpdateTaskFile(fs_inprog, fs_done, r_task_file, r_iter - 1,
                                    "interrupted", Len(r_iterations))
            IN /\ fs_inprog' = u.ip
               /\ fs_done' = u.dn
               /\ r_task_file' = u.tf
               /\ r_result' = "false"
               /\ r_pc' = "done"
               /\ r_alerts' = Append(r_alerts, Len(r_iterations))
               /\ fs_inbox_md' = TRUE
       ELSE /\ r_pc' = "exec"
            /\ UNCHANGED <<fs_inprog, fs_done, r_task_file, r_alerts, fs_inbox_md,
                           r_result>>
    /\ UNCHANGED <<r_arg, r_max, r_marker, r_dry, r_desc_na, r_running, r_iter, r_iterations,
                   r_completed, r_check>>

\* The for statement and the shutdown test at the top of the body.  When the
\* range is exhausted: _update_task_file(max, ..., "max_iterations_exceeded"),
\* _create_alert() (one file in Needs_Action, one line per IterationRecord),
\* return False.
RalphLoopTop ==
    /\ r_pc = "loop"
    /\ IF ~InRange(r_iter, r_max)
       THEN LET u == UpdateTaskFile(fs_inprog, fs_done, r_task_file, r_max,
                                    "max_iterations_exceeded", Len(r_iterations))
            IN /\ fs_inprog' = u.ip
               /\ fs_done' = u.dn
               /\ r_task_file' = u.tf
               /\ r_alerts' = Append(r_alerts, Len(r_iterations))
               /\ fs_inbox_md' = TRUE
               /\ r_result' = "false"
               /\ r_pc' = "done"
       ELSE IF ~r_running
       THEN LET u == UpdateTaskFile(fs_inprog, fs_done, r_task_file, r_iter - 1,
                                    "interrupted", Len(r_iterations))
            IN /\ fs_inprog' = u.ip
               /\ fs_done' = u.dn
               /\ r_task_file' = u.tf
               /\ r_result' = "false"
               /\ r_pc' = "done"
               /\ UNCHANGED <<r_alerts, fs_inbox_md>>
       ELSE /\ r_pc' = "exec"
            /\ UNCHANGED <<fs_inprog, fs_done, r_task_file, r_alerts, fs_inbox_md,
                           r_result>>
    /\ UNCHANGED <<r_arg, r_max, r_marker, r_dry, r_desc_na, r_running, r_iter, r_iterations,
                   r_completed, r_check>>

\* _run_claude raised something other than TimeoutExpired / FileNotFoundError
\* (for instance PermissionError from subprocess.run): run() has no handler.
RalphExecRaises ==
    /\ r_pc = "exec"
    /\ ~r_dry
    /\ r_result' = "raised"
    /\ r_pc' = "done"
    /\ UNCHANGED <<r_arg, r_max, r_marker, r_dry, r_desc_na, r_running, r_iter, r_iterations,
                   r_completed, r_task_file, fs_inprog, fs_done, fs_inbox_md, r_alerts,
                   r_check>>
    /\ UNCHANGED auditVars

\* One iteration body: _run_claude returns (success, output); the record is
\* appended; `success and self._check_completion(output)`; the task file is
\* rewritten.  In dry-run mode _run_claude calls audit_log and returns
\* (True, "DRY RUN: ..."), which never holds the marker.
RalphExec(success, marker) ==
    /\ r_pc = "exec"
    /\ r_dry => (success /\ ~marker)
    /\ IF r_dry
       THEN LET w == AuditWrite(audit_writable, "json")
            IN /\ audit_lines' = [audit_lines EXCEPT ![audit_day] = @ + w.appended]
               /\ audit_calls' = audit_calls + 1
               /\ audit_last' = [result |-> "dry_run", dry_run |-> "None",
                                 metadata |-> "json", writable |-> audit_writable,
                                 appended |-> w.appended, outcome |-> w.outcome]
               /\ UNCHANGED <<audit_day, audit_writable>>
       ELSE UNCHANGED auditVars
    /\ r_iterations' = Append(r_iterations, [number |-> r_iter, success |-> success])
    /\ LET chk  == CheckCompletion(fs_done # NoFile, marker, ~fs_inbox_md, r_desc_na)
           tf1  == IF success /\ chk.method = "done_file" THEN "done" ELSE r_task_file
           fin  == success /\ chk.result
           u    == UpdateTaskFile(fs_inprog, fs_done, tf1, r_iter,
                                  IF fin THEN "completed" ELSE "in_progress",
                                  Len(r_iterations) + 1)
       IN /\ r_check' = IF success
                        THEN [evaluated |-> TRUE, done_exists |-> fs_done # NoFile,
                              marker |-> marker, inbox_empty |-> ~fs_inbox_md,
                              desc_na |-> r_desc_na, result |-> chk.result,
                              method |-> chk.method]
                        ELSE r_check
          /\ fs_inprog' = u.ip
          /\ fs_done' = u.dn
          /\ r_task_file' = u.tf
          /\ r_completed' = fin
          /\ r_result' = IF fin THEN "true" ELSE r_result
          /\ r_pc' = IF fin THEN "done"
                     ELSE IF r_iter < r_max THEN "sleep" ELSE "loop"
          /\ r_iter' = IF ~fin /\ ~(r_iter < r_max) THEN r_iter + 1 ELSE r_iter
    /\ r_marker' = marker
    /\ UNCHANGED <<r_arg, r_max, r_dry, r_desc_na, r_running, fs_inbox_md, r_alerts>>

\* time.sleep(2) between iterations, then the next loop value
RalphSleep ==
    /\ r_pc = "sleep"
    /\ r_pc' = "loop"
    /\ r_iter' = r_iter + 1
    /\ UNCHANGED <<r_arg, r_max, r_marker, r_dry, r_desc_na, r_running, r_iterations, r_completed,
                   r_task_file, r_result, fs_inprog, fs_done, fs_inbox_md, r_alerts,
                   r_check>>

RalphNext ==
    \/ RalphShutdown /\ UNCHANGED <<rateVars, auditVars, orchVars, postVars, watchVars>>
    \/ AgentMovesTaskFile /\ UNCHANGED <<rateVars, auditVars, orchVars, postVars, watchVars>>
    \/ InboxChanges /\ UNCHANGED <<rateVars, auditVars, orchVars, postVars, watchVars>>
    \/ RalphStart /\ UNCHANGED <<rateVars, auditVars, orchVars, postVars, watchVars>>
    \/ RalphLoopTop /\ UNCHANGED <<rateVars, auditVars, orchVars, postVars, watchVars>>
    \/ RalphExecRaises /\ UNCHANGED <<rateVars, orchVars, postVars, watchVars>>
    \/ \E success \in BOOLEAN, marker \in BOOLEAN :
           RalphExec(success, marker) /\ UNCHANGED <<rateVars, orchVars, postVars, watchVars>>
    \/ RalphSleep /\ UNCHANGED <<rateVars, auditVars, orchVars, postVars, watchVars>>

(***************************************************************************)
(* Orchestrator                                                            *)
(***************************************************************************)
DASHBOARD_INTERVAL == 1800
BRIEFING_DAY       == 6
BRIEFING_HOUR      == 23
NeverChecked       == -1      \* self._last_briefing_check = ""

\* The clock counts units of DASHBOARD_INTERVAL seconds from a Monday 00:00 UTC.
UnitsPerHour == 3600 \div DASHBOARD_INTERVAL
UnitsPerDay  == 24 * UnitsPerHour
Date(t)      == t \div UnitsPerDay                 \* now.strftime("%Y-%m-%d")
Weekday(t)   == Date(t) % 7                        \* now.weekday(), Monday = 0
Hour(t)      == (t % UnitsPerDay) \div UnitsPerHour \* now.hour
\* run() is started on a Sunday at 22:30
StartNow     == BRIEFING_DAY * UnitsPerDay + BRIEFING_HOUR * UnitsPerHour - 1

\* A path is <<subfolder, file name, number>>; rglob("*.md") returns files of
\* the folder and of its subfolders.  The number tells the alert files apart
\* (their names carry the second they were written in).
NeedsActionPaths == {<<"", "a.md", 0>>}
ApprovedPaths    == {<<"", "a.md", 0>>, <<"sub", "a.md", 0>>}
AlertPath(n) == <<"", "ALERT_skill_failure", n>>
AlertPaths == {AlertPath(n) : n \in 1..MaxAlerts}
Name(p)    == <<p[2], p[3]>>                       \* f.name
Names      == {Name(p) : p \in NeedsActionPaths \cup ApprovedPaths \cup AlertPaths}

NoItem == [state |-> "untracked", error |-> "none", retries |-> 0]
NoError == [skill |-> "none", time |-> 0]       \* self._last_error = None
NoHealth == [status |-> "none", total_scans |-> 0, items |-> <<>>]  \* no .claude/health.json yet
NoCall == [outcomes |-> <<>>, errors0 |-> 0, last_error0 |-> NoError, alerts0 |-> 0]

\* State, in pipeline order
StateOrder == <<"DETECTED", "PROCESSING", "AWAITING_APPROVAL", "APPROVED",
                "EXECUTING", "DONE">>
Rank(st) == CHOOSE i \in 1..Len(StateOrder) : StateOrder[i] = st

\* ItemTracker.__init__
NewTracker == [state |-> "DETECTED", error |-> "none", retries |-> 0]

\* Mutant of Transition: a tracker that carries an error does not move.
TransitionGatedByError(tracker, new_state) ==
    IF tracker.error # "none" THEN tracker ELSE [tracker EXCEPT !.state = new_state]

\* ItemTracker.transition
Transition(tracker, new_state) == [tracker EXCEPT !.state = new_state]

\* Mutant of ScanFolder: the orchestrator's own alert files are skipped.
ScanFolderSkipsAlerts(dir) ==
    {f \in dir : f[2] \notin {".gitkeep", "TEMPLATE_approval.md", "ALERT_skill_failure"}}

\* _scan_folder: the task-bearing *.md files of a folder (the model's folders
\* hold no .gitkeep and no TEMPLATE_approval.md)
ScanFolder(dir) == {f \in dir : f[2] \notin {".gitkeep", "TEMPLATE_approval.md"}}

\* Mutant of DetectNew: the stored snapshot is not replaced.
DetectNewKeepsSnapshot(current, known) ==
    [new_files |-> current \ known, known |-> known]

\* _detect_new_needs_action / _detect_new_approved
DetectNew(current, known) ==
    [new_files |-> current \ known, known |-> current]

\* Mutant of RetryEffect: the error is counted at the first failure already.
RetryEffectCountsFirstFailure(attempt, ok) ==
    IF ok THEN [done |-> TRUE, success |-> TRUE, count_error |-> FALSE, alert |-> FALSE]
    ELSE IF attempt = 1
         THEN [done |-> FALSE, success |-> FALSE, count_error |-> TRUE, alert |-> FALSE]
         ELSE [done |-> TRUE, success |-> FALSE, count_error |-> TRUE, alert |-> TRUE]

\* Mutant of RetryEffect: no alert file after the second failure.
RetryEffectNoAlert(attempt, ok) ==
    IF ok THEN [done |-> TRUE, success |-> TRUE, count_error |-> FALSE, alert |-> FALSE]
    ELSE IF attempt = 1
         THEN [done |-> FALSE, success |-> FALSE, count_error |-> FALSE, alert |-> FALSE]
         ELSE [done |-> TRUE, success |-> FALSE, count_error |-> TRUE, alert |-> FALSE]

\* _run_skill_with_retry: what follows the attempt-th _run_skill result
RetryEffect(attempt, ok) ==
    IF ok THEN [done |-> TRUE, success |-> TRUE, count_error |-> FALSE, alert |-> FALSE]
    ELSE IF attempt = 1
         THEN [done |-> FALSE, success |-> FALSE, count_error |-> FALSE, alert |-> FALSE]
         ELSE [done |-> TRUE, success |-> FALSE, count_error |-> TRUE, alert |-> TRUE]

\* Mutant of SkillOutcomes: the dry-run test is missing, the subprocess runs.
SkillOutcomesIgnoresDryRun(dry) == {"ok", "fail", "raise"}

\* _run_skill: in dry-run mode it returns True without a subprocess
\* ("dry_run"); otherwise the subprocess ends with exit code 0 ("ok"), with a
\* non-zero exit, a timeout or a missing CLI ("fail"), or with an exception
\* _run_skill does not catch, such as PermissionError ("raise").
SkillOutcomes(dry) == IF dry THEN {"dry_run"} ELSE {"ok", "fail", "raise"}

\* health_status: the fields of the snapshot the model keeps
\* (status, total_scans and the state of each entry of "items")
HealthStatus(running, scans, its) ==
    [status |-> IF running THEN "running" ELSE "stopped", total_scans |-> scans,
     items |-> [k \in {n \in Names : its[n] # NoItem} |-> its[k].state]]

\* _should_update_dashboard
ShouldUpdateDashboard(now, last) ==
    (now - last) * DASHBOARD_INTERVAL >= DASHBOARD_INTERVAL

\* Mutant of ShouldRunBriefing: the date of the firing is not remembered.
ShouldRunBriefingForgets(now, last) ==
    IF Weekday(now) = BRIEFING_DAY /\ Hour(now) = BRIEFING_HOUR /\ last # Date(now)
    THEN [fire |-> TRUE, last |-> last]
    ELSE [fire |-> FALSE, last |-> last]

\* _should_run_briefing: the value returned and self._last_briefing_check after
ShouldRunBriefing(now, last) ==
    IF Weekday(now) = BRIEFING_DAY /\ Hour(now) = BRIEFING_HOUR /\ last # Date(now)
    THEN [fire |-> TRUE, last |-> Date(now)]
    ELSE [fire |-> FALSE, last |-> last]

\* _handle_new_items, first loop: a fresh tracker per file, keyed by f.name
TrackNew(its, files) ==
    [k \in Names |-> IF \E f \in files : Name(f) = k THEN NewTracker ELSE its[k]]

\* Mutant of AfterProcessInbox: a successful dispatch leaves the items in PROCESSING.
AfterProcessInboxOneStep(its, files, success) ==
    [k \in Names |->
        LET n == Cardinality({f \in files : Name(f) = k})
        IN IF n = 0 THEN its[k]
           ELSE IF success
                THEN Transition(its[k], "PROCESSING")
                ELSE [its[k] EXCEPT !.error = "process_inbox failed",
                                    !.retries = @ + n]]

\* _handle_new_items, last loop
AfterProcessInbox(its, files, success) ==
    [k \in Names |->
        LET n == Cardinality({f \in files : Name(f) = k})
        IN IF n = 0 THEN its[k]
           ELSE IF success
                THEN Transition(Transition(its[k], "PROCESSING"), "AWAITING_APPROVAL")
                ELSE [its[k] EXCEPT !.error = "process_inbox failed",
                                    !.retries = @ + n]]

\* Mutant of TrackApproved: a file without a tracker gets none.
TrackApprovedExistingOnly(its, files) ==
    [k \in Names |->
        IF (\E f \in files : Name(f) = k) /\ its[k] # NoItem
        THEN Transition(its[k], "APPROVED")
        ELSE its[k]]

\* _handle_approved, first loop
TrackApproved(its, files) ==
    [k \in Names |->
        IF \E f \in files : Name(f) = k
        THEN IF its[k] # NoItem THEN Transition(its[k], "APPROVED")
             ELSE Transition(NewTracker, "APPROVED")
        ELSE its[k]]

\* Mutant of AfterExecuteApproved: a successful dispatch leaves the items in EXECUTING.
AfterExecuteApprovedOneStep(its, files, success) ==
    [k \in Names |->
        IF \E f \in files : Name(f) = k
        THEN IF success THEN Transition(its[k], "EXECUTING")
             ELSE [its[k] EXCEPT !.error = "execute_approved failed"]
        ELSE its[k]]

\* _handle_approved, last loop
AfterExecuteApproved(its, files, success) ==
    [k \in Names |->
        IF \E f \in files : Name(f) = k
        THEN IF success THEN Transition(Transition(its[k], "EXECUTING"), "DONE")
             ELSE [its[k] EXCEPT !.error = "execute_approved failed"]
        ELSE its[k]]

\* The points where run() blocks: inside a _run_skill call (and the sleep
\* before the retry) and in _stop_event.wait.  The world changes there.
Blocked == o_pc \in {"skill", "wait"}

OrchInit ==
    /\ o_dry \in BOOLEAN
    /\ o_running = FALSE
    /\ o_pc = "init"
    /\ dir_needs_action \in SUBSET NeedsActionPaths
    /\ dir_approved \in SUBSET ApprovedPaths
    /\ known_needs_action = {}
    /\ known_approved = {}
    /\ items = [k \in Names |-> NoItem]
    /\ total_scans = 0
    /\ total_errors = 0
    /\ last_error = NoError
    /\ last_dashboard_update = 0
    /\ last_briefing_check = NeverChecked
    /\ o_now = StartNow
    /\ o_skill = "none"
    /\ o_cont = "none"
    /\ o_attempt = 0
    /\ o_success = FALSE
    /\ o_batch = {}
    /\ alerts_written = 0
    /\ o_call = NoCall
    /\ na_reported = {}
    /\ ap_reported = {}
    /\ brief_evals = <<>>
    /\ brief_fires = <<>>
    /\ file_events = 0
    /\ health = NoHealth
    /\ stop_received = FALSE
    /\ na_initial = {}
    /\ ap_initial = {}

OrchIdle ==
    /\ o_dry = TRUE
    /\ o_running = FALSE
    /\ o_pc = "init"
    /\ dir_needs_action = {}
    /\ dir_approved = {}
    /\ known_needs_action = {}
    /\ known_approved = {}
    /\ items = [k \in Names |-> NoItem]
    /\ total_scans = 0
    /\ total_errors = 0
    /\ last_error = NoError
    /\ last_dashboard_update = 0
    /\ last_briefing_check = NeverChecked
    /\ o_now = StartNow
    /\ o_skill = "none"
    /\ o_cont = "none"
    /\ o_attempt = 0
    /\ o_success = FALSE
    /\ o_batch = {}
    /\ alerts_written = 0
    /\ o_call = NoCall
    /\ na_reported = {}
    /\ ap_reported = {}
    /\ brief_evals = <<>>
    /\ brief_fires = <<>>
    /\ file_events = 0
    /\ health = NoHealth
    /\ stop_received = FALSE
    /\ na_initial = {}
    /\ ap_initial = {}

\* Entry of _run_skill_with_retry(skill), called from the site `cont`
StartSkill(skill, cont) ==
    /\ o_pc' = "skill"
    /\ o_skill' = skill
    /\ o_cont' = cont
    /\ o_attempt' = 1
    /\ o_call' = [outcomes |-> <<>>, errors0 |-> total_errors,
                  last_error0 |-> last_error, alerts0 |-> alerts_written]

\* _run_skill_with_retry has returned and its result has been used: the
\* frame of the call is gone
EndCall ==
    /\ o_skill' = "none"
    /\ o_cont' = "none"
    /\ o_attempt' = 0
    /\ o_success' = FALSE
    /\ o_call' = NoCall

\* ---- the world ----

\* a watcher, the agent or a person puts a file into Needs_Action
FileArrivesNeedsAction(f) ==
    /\ Blocked
    /\ file_events < MaxFileEvents
    /\ file_events' = file_events + 1
    /\ f \in NeedsActionPaths \ dir_needs_action
    /\ dir_needs_action' = dir_needs_action \cup {f}
    /\ UNCHANGED <<o_dry, o_running, o_pc, dir_approved, known_needs_action,
                   known_approved, items, total_scans, total_errors, last_error,
                   last_dashboard_update, last_briefing_check, o_now, o_skill, o_cont,
                   o_attempt, o_success, o_batch, alerts_written, o_call, na_reported,
                   ap_reported, brief_evals, brief_fires, health, stop_received,
                   na_initial, ap_initial>>

\* a file leaves Needs_Action (moved on by the agent, or deleted)
FileLeavesNeedsAction(f) ==
    /\ Blocked
    /\ file_events < MaxFileEvents
    /\ file_events' = file_events + 1
    /\ f \in dir_needs_action
    /\ dir_needs_action' = dir_needs_action \ {f}
    /\ na_reported' = na_reported \ {f}
    /\ na_initial' = na_initial \ {f}
    /\ UNCHANGED <<o_dry, o_running, o_pc, dir_approved, known_needs_action,
                   known_approved, items, total_scans, total_errors, last_error,
                   last_dashboard_update, last_briefing_check, o_now, o_skill, o_cont,
                   o_attempt, o_success, o_batch, alerts_written, o_call, ap_reported,
                   brief_evals, brief_fires, health, stop_received, ap_initial>>

\* a person approves: a file appears in Approved
FileArrivesApproved(f) ==
    /\ Blocked
    /\ file_events < MaxFileEvents
    /\ file_events' = file_events + 1
    /\ f \in ApprovedPaths \ dir_approved
    /\ dir_approved' = dir_approved \cup {f}
    /\ UNCHANGED <<o_dry, o_running, o_pc, dir_needs_action, known_needs_action,
                   known_approved, items, total_scans, total_errors, last_error,
                   last_dashboard_update, last_briefing_check, o_now, o_skill, o_cont,
                   o_attempt, o_success, o_batch, alerts_written, o_call, na_reported,
                   ap_reported, brief_evals, brief_fires, health, stop_received,
                   na_initial, ap_initial>>

\* a file leaves Approved (the agent moves it to Done)
FileLeavesApproved(f) ==
    /\ Blocked
    /\ file_events < MaxFileEvents
    /\ file_events' = file_events + 1
    /\ f \in dir_approved
    /\ dir_approved' = dir_approved \ {f}
    /\ ap_reported' = ap_reported \ {f}
    /\ ap_initial' = ap_initial \ {f}
    /\ UNCHANGED <<o_dry, o_running, o_pc, dir_needs_action, known_needs_action,
                   known_approved, items, total_scans, total_errors, last_error,
                   last_dashboard_update, last_briefing_check, o_now, o_skill, o_cont,
                   o_attempt, o_success, o_batch, alerts_written, o_call, na_reported,
                   brief_evals, brief_fires, health, stop_received, na_initial>>

\* time passes
ClockAdvances ==
    /\ Blocked
    /\ o_now < StartNow + MaxElapsed
    /\ o_now' = o_now + 1
    /\ UNCHANGED <<o_dry, o_running, o_pc, dir_needs_action, dir_approved,
                   known_needs_action, known_approved, items, total_scans,
                   total_errors, last_error, last_dashboard_update,
                   last_briefing_check, o_skill, o_cont, o_attempt, o_success, o_batch,
                   alerts_written, o_call, na_reported, ap_reported, brief_evals,
                   brief_fires, file_events, health, stop_received, na_initial,
                   ap_initial>>

\* _shutdown: SIGINT / SIGTERM.  The handlers are installed by __init__, so
\* a signal can also arrive before run() is entered.  A further signal
\* that finds _running False changes nothing.
OrchShutdown ==
    /\ Blocked \/ o_pc = "init"
    /\ o_running \/ ~stop_received
    /\ o_running' = FALSE
    /\ stop_received' = TRUE
    /\ UNCHANGED <<o_dry, o_pc, dir_needs_action, dir_approved, known_needs_action,
                   known_approved, items, total_scans, total_errors, last_error,
                   last_dashboard_update, last_briefing_check, o_now, o_skill, o_cont,
                   o_attempt, o_success, o_batch, alerts_written, o_call, na_reported,
                   ap_reported, brief_evals, brief_fires, file_events, health,
                   na_initial, ap_initial>>

\* ---- run() ----

\* Mutant of OrchStart: run() takes no initial snapshot.
OrchStartNoSnapshot ==
    /\ o_pc = "init"
    /\ o_running' = TRUE
    /\ known_needs_action' = {}
    /\ known_approved' = {}
    /\ na_initial' = ScanFolder(dir_needs_action)
    /\ ap_initial' = ScanFolder(dir_approved)
    /\ StartSkill("update_dashboard", "init")
    /\ UNCHANGED <<o_dry, dir_needs_action, dir_approved, items, total_scans,
                   total_errors, last_error, last_dashboard_update,
                   last_briefing_check, o_now, o_success, o_batch, alerts_written,
                   na_reported, ap_reported, brief_evals, brief_fires, file_events,
                   health, stop_received>>

\* run() up to the initial dashboard dispatch: the initial snapshot
OrchStart ==
    /\ o_pc = "init"
    /\ o_running' = TRUE
    /\ known_needs_action' = ScanFolder(dir_needs_action)
    /\ known_approved' = ScanFolder(dir_approved)
    /\ na_initial' = ScanFolder(dir_needs_action)
    /\ ap_initial' = ScanFolder(dir_approved)
    /\ StartSkill("update_dashboard", "init")
    /\ UNCHANGED <<o_dry, dir_needs_action, dir_approved, items, total_scans,
                   total_errors, last_error, last_dashboard_update,
                   last_briefing_check, o_now, o_success, o_batch, alerts_written,
                   na_reported, ap_reported, brief_evals, brief_fires, file_events,
                   health, stop_received>>

\* One _run_skill attempt returns (or raises), and _run_skill_with_retry acts on
\* it: retry after time.sleep(5), or return, counting the error and writing
\* the alert file after the second failure.
RunSkill(outcome) ==
    /\ o_pc = "skill"
    /\ outcome \in SkillOutcomes(o_dry)
    /\ o_call' = [o_call EXCEPT !.outcomes = Append(@, outcome)]
    /\ IF outcome = "raise"
       THEN /\ o_pc' = "raised"
            /\ UNCHANGED <<total_errors, last_error, alerts_written, dir_needs_action,
                           o_success, o_attempt>>
       ELSE LET e == RetryEffect(o_attempt, outcome \in {"ok", "dry_run"})
            IN /\ e.alert => alerts_written < MaxAlerts
               /\ total_errors' = IF e.count_error THEN total_errors + 1 ELSE total_errors
               /\ last_error' = IF e.count_error
                                THEN [skill |-> o_skill, time |-> o_now]
                                ELSE last_error
               /\ alerts_written' = IF e.alert THEN alerts_written + 1 ELSE alerts_written
               /\ dir_needs_action' = IF e.alert
                                      THEN dir_needs_action \cup {AlertPath(alerts_written + 1)}
                                      ELSE dir_needs_action
               /\ o_pc' = IF e.done THEN "ret" ELSE "skill"
               /\ o_success' = IF e.done THEN e.success ELSE o_success
               /\ o_attempt' = IF e.done THEN o_attempt ELSE o_attempt + 1
    /\ UNCHANGED <<o_dry, o_running, dir_approved, known_needs_action, known_approved,
                   items, total_scans, last_dashboard_update, last_briefing_check,
                   o_now, o_skill, o_cont, o_batch, na_reported, ap_reported,
                   brief_evals, brief_fires, file_events, health, stop_received,
                   na_initial, ap_initial>>

\* an update_dashboard dispatch returned: self._last_dashboard_update = time.time()
AfterDashboard ==
    /\ o_pc = "ret"
    /\ o_cont \in {"init", "ap_dash", "dash"}
    /\ last_dashboard_update' = o_now
    /\ o_pc' = CASE o_cont = "init" -> "top"
                 [] o_cont = "ap_dash" -> "sched_dash"
                 [] o_cont = "dash" -> "sched_brief"
    /\ EndCall
    /\ UNCHANGED <<o_dry, o_running, dir_needs_action, dir_approved,
                   known_needs_action, known_approved, items, total_scans,
                   total_errors, last_error, last_briefing_check, o_now, o_batch,
                   alerts_written, na_reported, ap_reported, brief_evals, brief_fires,
                   file_events, health, stop_received, na_initial, ap_initial>>

\* while self._running: ... _tick(): self._total_scans += 1 and step 1,
\* _detect_new_needs_action and the first loop of _handle_new_items
TickBegin ==
    /\ o_pc = "top"
    /\ o_running
    /\ total_scans < MaxTicks
    /\ total_scans' = total_scans + 1
    /\ LET d == DetectNew(ScanFolder(dir_needs_action), known_needs_action)
       IN /\ known_needs_action' = d.known
          /\ o_batch' = d.new_files
          /\ na_reported' = na_reported \cup d.new_files
          /\ IF d.new_files # {}
             THEN /\ items' = TrackNew(items, d.new_files)
                  /\ StartSkill("process_inbox", "ni")
             ELSE /\ o_pc' = "scan_ap"
                  /\ UNCHANGED <<items, o_skill, o_cont, o_attempt, o_call>>
    /\ UNCHANGED <<o_dry, o_running, dir_needs_action, dir_approved, known_approved,
                   total_errors, last_error, last_dashboard_update,
                   last_briefing_check, o_now, o_success, alerts_written, ap_reported,
                   brief_evals, brief_fires, file_events, health, stop_received,
                   na_initial, ap_initial>>

\* _handle_new_items after the process_inbox dispatch returned
HandleNewItemsEnd ==
    /\ o_pc = "ret"
    /\ o_cont = "ni"
    /\ items' = AfterProcessInbox(items, o_batch, o_success)
    /\ o_pc' = "scan_ap"
    /\ EndCall
    /\ UNCHANGED <<o_dry, o_running, dir_needs_action, dir_approved,
                   known_needs_action, known_approved, total_scans, total_errors,
                   last_error, last_dashboard_update, last_briefing_check, o_now,
                   o_batch, alerts_written, na_reported, ap_reported, brief_evals,
                   brief_fires, file_events, health, stop_received, na_initial,
                   ap_initial>>

\* _tick step 2: _detect_new_approved and the first loop of _handle_approved
ScanApproved ==
    /\ o_pc = "scan_ap"
    /\ LET d == DetectNew(ScanFolder(dir_approved), known_approved)
       IN /\ known_approved' = d.known
          /\ o_batch' = d.new_files
          /\ ap_reported' = ap_reported \cup d.new_files
          /\ IF d.new_files # {}
             THEN /\ items' = TrackApproved(items, d.new_files)
                  /\ StartSkill("execute_approved", "ap")
             ELSE /\ o_pc' = "sched_dash"
                  /\ UNCHANGED <<items, o_skill, o_cont, o_attempt, o_call>>
    /\ UNCHANGED <<o_dry, o_running, dir_needs_action, dir_approved,
                   known_needs_action, total_scans, total_errors, last_error,
                   last_dashboard_update, last_briefing_check, o_now, o_success,
                   alerts_written, na_reported, brief_evals, brief_fires, file_events,
                   health, stop_received, na_initial, ap_initial>>

\* _handle_approved after the execute_approved dispatch returned
HandleApprovedEnd ==
    /\ o_pc = "ret"
    /\ o_cont = "ap"
    /\ items' = AfterExecuteApproved(items, o_batch, o_success)
    /\ IF o_success
       THEN /\ StartSkill("update_dashboard", "ap_dash")
            /\ UNCHANGED o_success
       ELSE /\ o_pc' = "sched_dash"
            /\ EndCall
    /\ UNCHANGED <<o_dry, o_running, dir_needs_action, dir_approved,
                   known_needs_action, known_approved, total_scans, total_errors,
                   last_error, last_dashboard_update, last_briefing_check, o_now,
                   o_batch, alerts_written, na_reported, ap_reported, brief_evals,
                   brief_fires, file_events, health, stop_received, na_initial,
                   ap_initial>>

\* _tick step 3: the scheduled dashboard update
ScheduleDashboard ==
    /\ o_pc = "sched_dash"
    /\ IF ShouldUpdateDashboard(o_now, last_dashboard_update)
       THEN StartSkill("update_dashboard", "dash")
       ELSE /\ o_pc' = "sched_brief"
            /\ UNCHANGED <<o_skill, o_cont, o_attempt, o_call>>
    /\ UNCHANGED <<o_dry, o_running, dir_needs_action, dir_approved,
                   known_needs_action, known_approved, items, total_scans,
                   total_errors, last_error, last_dashboard_update,
                   last_briefing_check, o_now, o_success, o_batch, alerts_written,
                   na_reported, ap_reported, brief_evals, brief_fires, file_events,
                   health, stop_received, na_initial, ap_initial>>

\* _tick step 4: the weekly briefing
ScheduleBriefing ==
    /\ o_pc = "sched_brief"
    /\ LET b == ShouldRunBriefing(o_now, last_briefing_check)
       IN /\ last_briefing_check' = b.last
          /\ brief_evals' = IF Weekday(o_now) = BRIEFING_DAY /\ Hour(o_now) = BRIEFING_HOUR
                            THEN Append(brief_evals, Date(o_now))
                            ELSE brief_evals
          /\ brief_fires' = IF b.fire THEN Append(brief_fires, Date(o_now))
                            ELSE brief_fires
          /\ IF b.fire
             THEN StartSkill("ceo_briefing", "brief")
             ELSE /\ o_pc' = "tick_end"
                  /\ UNCHANGED <<o_skill, o_cont, o_attempt, o_call>>
    /\ UNCHANGED <<o_dry, o_running, dir_needs_action, dir_approved,
                   known_needs_action, known_approved, items, total_scans,
                   total_errors, last_error, last_dashboard_update, o_now, o_success,
                   o_batch, alerts_written, na_reported, ap_reported, file_events,
                   health, stop_received, na_initial, ap_initial>>

\* the ceo_briefing dispatch returned: _tick returns
AfterBriefing ==
    /\ o_pc = "ret"
    /\ o_cont = "brief"
    /\ o_pc' = "tick_end"
    /\ EndCall
    /\ UNCHANGED <<o_dry, o_running, dir_needs_action, dir_approved,
                   known_needs_action, known_approved, items, total_scans,
                   total_errors, last_error, last_dashboard_update,
                   last_briefing_check, o_now, o_batch, alerts_written, na_reported,
                   ap_reported, brief_evals, brief_fires, file_events, health,
                   stop_received, na_initial, ap_initial>>

\* An exception left _run_skill.  Inside _tick it is caught by run():
\* self._total_errors += 1.  In the initial dispatch nothing catches it.
TickRaised ==
    /\ o_pc = "raised"
    /\ IF o_cont = "init"
       THEN /\ o_pc' = "crashed"
            /\ UNCHANGED total_errors
       ELSE /\ o_pc' = "tick_end"
            /\ total_errors' = total_errors + 1
    /\ EndCall
    /\ UNCHANGED <<o_dry, o_running, dir_needs_action, dir_approved,
                   known_needs_action, known_approved, items, total_scans, last_error,
                   last_dashboard_update, last_briefing_check, o_now, o_batch,
                   alerts_written, na_reported, ap_reported, brief_evals, brief_fires,
                   file_events, health, stop_received, na_initial, ap_initial>>

\* _tick has returned or raised, its locals are gone; write_health_file().
\* The write is outside the try block of run(): when it raises (health.json
\* or .claude not writable, disk full) the exception leaves run().
TickEnd(written) ==
    /\ o_pc = "tick_end"
    /\ o_batch' = {}
    /\ IF written
       THEN /\ health' = HealthStatus(o_running, total_scans, items)
            /\ o_pc' = "wait"
       ELSE /\ health' = health
            /\ o_pc' = "crashed"
    /\ UNCHANGED <<o_dry, o_running, dir_needs_action, dir_approved,
                   known_needs_action, known_approved, items, total_scans,
                   total_errors, last_error, last_dashboard_update,
                   last_briefing_check, o_now, o_skill, o_cont, o_attempt, o_success,
                   alerts_written, o_call, na_reported, ap_reported, brief_evals,
                   brief_fires, file_events, stop_received, na_initial, ap_initial>>

\* self._stop_event.wait(timeout=self.SCAN_INTERVAL) returns
WaitEnds ==
    /\ o_pc = "wait"
    /\ o_pc' = "top"
    /\ UNCHANGED <<o_dry, o_running, dir_needs_action, dir_approved,
                   known_needs_action, known_approved, items, total_scans,
                   total_errors, last_error, last_dashboard_update,
                   last_briefing_check, o_now, o_skill, o_cont, o_attempt, o_success,
                   o_batch, alerts_written, o_call, na_reported, ap_reported,
                   brief_evals, brief_fires, file_events, health, stop_received,
                   na_initial, ap_initial>>

\* the loop ends: orchestrator_stop is logged, the last health file written
OrchStop(written) ==
    /\ o_pc = "top"
    /\ ~o_running
    /\ IF written
       THEN /\ health' = HealthStatus(o_running, total_scans, items)
            /\ o_pc' = "stopped"
       ELSE /\ health' = health
            /\ o_pc' = "crashed"
    /\ UNCHANGED <<o_dry, o_running, dir_needs_action, dir_approved,
                   known_needs_action, known_approved, items, total_scans,
                   total_errors, last_error, last_dashboard_update,
                   last_briefing_check, o_now, o_skill, o_cont, o_attempt, o_success,
                   o_batch, alerts_written, o_call, na_reported, ap_reported,
                   brief_evals, brief_fires, file_events, stop_received, na_initial,
                   ap_initial>>

OrchNext ==
    \/ \E f \in NeedsActionPaths : FileArrivesNeedsAction(f) /\ UNCHANGED <<rateVars, auditVars, ralphVars, postVars, watchVars>>
    \/ \E f \in NeedsActionPaths \cup AlertPaths :
           FileLeavesNeedsAction(f) /\ UNCHANGED <<rateVars, auditVars, ralphVars, postVars, watchVars>>
    \/ \E f \in ApprovedPaths : FileArrivesApproved(f) /\ UNCHANGED <<rateVars, auditVars, ralphVars, postVars, watchVars>>
    \/ \E f \in ApprovedPaths : FileLeavesApproved(f) /\ UNCHANGED <<rateVars, auditVars, ralphVars, postVars, watchVars>>
    \/ ClockAdvances /\ UNCHANGED <<rateVars, auditVars, ralphVars, postVars, watchVars>>
    \/ OrchShutdown /\ UNCHANGED <<rateVars, auditVars, ralphVars, postVars, watchVars>>
    \/ OrchStart /\ UNCHANGED <<rateVars, auditVars, ralphVars, postVars, watchVars>>
    \/ \E outcome \in {"ok", "fail", "raise", "dry_run"} :
           RunSkill(outcome) /\ UNCHANGED <<rateVars, auditVars, ralphVars, postVars, watchVars>>
    \/ AfterDashboard /\ UNCHANGED <<rateVars, auditVars, ralphVars, postVars, watchVars>>
    \/ TickBegin /\ UNCHANGED <<rateVars, auditVars, ralphVars, postVars, watchVars>>
    \/ HandleNewItemsEnd /\ UNCHANGED <<rateVars, auditVars, ralphVars, postVars, watchVars>>
    \/ ScanApproved /\ UNCHANGED <<rateVars, auditVars, ralphVars, postVars, watchVars>>
    \/ HandleApprovedEnd /\ UNCHANGED <<rateVars, auditVars, ralphVars, postVars, watchVars>>
    \/ ScheduleDashboard /\ UNCHANGED <<rateVars, auditVars, ralphVars, postVars, watchVars>>
    \/ ScheduleBriefing /\ UNCHANGED <<rateVars, auditVars, ralphVars, postVars, watchVars>>
    \/ AfterBriefing /\ UNCHANGED <<rateVars, auditVars, ralphVars, postVars, watchVars>>
    \/ TickRaised /\ UNCHANGED <<rateVars, auditVars, ralphVars, postVars, watchVars>>
    \/ \E written \in BOOLEAN :
           TickEnd(written) /\ UNCHANGED <<rateVars, auditVars, ralphVars, postVars, watchVars>>
    \/ WaitEnds /\ UNCHANGED <<rateVars, auditVars, ralphVars, postVars, watchVars>>
    \/ \E written \in BOOLEAN :
           OrchStop(written) /\ UNCHANGED <<rateVars, auditVars, ralphVars, postVars, watchVars>>

(***************************************************************************)
(* BaseWatcher.run and FileSystemWatcher (drop folder)                     *)
(***************************************************************************)
MAX_CONSECUTIVE_ERRORS == 10

DropEvents == 1..MaxDropEvents

\* Set of the elements of a sequence
Elems(seq) == {seq[i] : i \in 1..Len(seq)}

\* check_for_updates, the loop over `files`: the paths that still exist
ExistingFiles(files, removed) == SelectSeq(files, LAMBDA e : e \notin removed)

\* Mutant of CycleEffect: a cycle that does not raise leaves the counter alone.
CycleEffectNoReset(count, raised) ==
    IF raised
    THEN [count |-> count + 1, stop |-> count + 1 >= MAX_CONSECUTIVE_ERRORS]
    ELSE [count |-> count, stop |-> FALSE]

\* The body of the while loop of BaseWatcher.run, after the cycle raised or
\* not: self._error_count, and whether the loop is left by `break`.
CycleEffect(count, raised) ==
    IF raised
    THEN [count |-> count + 1, stop |-> count + 1 >= MAX_CONSECUTIVE_ERRORS]
    ELSE [count |-> 0, stop |-> FALSE]

WatchInit ==
    /\ w_pc = "init"
    /\ w_running = FALSE
    /\ error_count = 0
    /\ pending_files = <<>>
    /\ w_files = <<>>
    /\ w_created = 0
    /\ w_removed = {}
    /\ w_returned = <<>>
    /\ w_cycles = <<>>
    /\ w_stop_received = FALSE

WatchIdle == WatchInit

\* _DropHandler.on_created, on the observer thread: one more event recorded
OnCreated ==
    /\ w_pc \notin {"init", "stopped"}
    /\ w_created < MaxDropEvents
    /\ w_created' = w_created + 1
    /\ pending_files' = Append(pending_files, w_created + 1)
    /\ UNCHANGED <<w_pc, w_running, error_count, w_files, w_removed, w_returned,
                   w_cycles, w_stop_received>>

\* Somebody removes a dropped file from the drop folder before a poll returned it.
DropFileRemoved(e) ==
    /\ e \in 1..w_created
    /\ e \notin w_removed
    /\ e \notin Elems(w_returned)
    /\ w_removed' = w_removed \cup {e}
    /\ UNCHANGED <<w_pc, w_running, error_count, pending_files, w_files, w_created,
                   w_returned, w_cycles, w_stop_received>>

\* _shutdown: SIGINT / SIGTERM handler
WatcherShutdown ==
    /\ w_pc \notin {"init", "stopped"}
    /\ w_running
    /\ w_running' = FALSE
    /\ w_stop_received' = TRUE
    /\ UNCHANGED <<w_pc, error_count, pending_files, w_files, w_created, w_removed,
                   w_returned, w_cycles>>

\* FileSystemWatcher.run: self._observer.start(); BaseWatcher.run up to the loop
WatcherStart ==
    /\ w_pc = "init"
    /\ w_running' = TRUE
    /\ error_count' = 0
    /\ w_pc' = "loop"
    /\ UNCHANGED <<pending_files, w_files, w_created, w_removed, w_returned,
                   w_cycles, w_stop_received>>

\* while self._running:  (and, when it is false, the end of run())
WatcherLoopTest ==
    /\ w_pc = "loop"
    /\ w_running => Len(w_cycles) < MaxCycles
    /\ w_pc' = IF w_running THEN "check" ELSE "stopped"
    /\ UNCHANGED <<w_running, error_count, pending_files, w_files, w_created,
                   w_removed, w_returned, w_cycles, w_stop_received>>

\* check_for_updates: files = list(self._handler.pending_files)
CheckCopy ==
    /\ w_pc = "check"
    /\ w_files' = pending_files
    /\ w_pc' = "clear"
    /\ UNCHANGED <<w_running, error_count, pending_files, w_created, w_removed,
                   w_returned, w_cycles, w_stop_received>>

\* check_for_updates: self._handler.pending_files.clear(), the loop over
\* `files` and the return
CheckClear ==
    /\ w_pc = "clear"
    /\ pending_files' = <<>>
    /\ w_returned' = w_returned \o ExistingFiles(w_files, w_removed)
    /\ w_files' = <<>>
    /\ w_pc' = "process"
    /\ UNCHANGED <<w_running, error_count, w_created, w_removed, w_cycles,
                   w_stop_received>>

\* The rest of the cycle: create_action_file for each update returns, or one
\* of them raises; the counter; `break` after MAX_CONSECUTIVE_ERRORS.
CycleEnds(raised) ==
    /\ w_pc = "process"
    /\ ~raised => Cardinality({i \in 1..Len(w_cycles) : ~w_cycles[i]}) < MaxCleanCycles
    /\ LET e == CycleEffect(error_count, raised)
       IN /\ error_count' = e.count
          /\ w_running' = IF e.stop THEN FALSE ELSE w_running
          /\ w_pc' = IF e.stop THEN "stopped" ELSE "sleep"
    /\ w_cycles' = Append(w_cycles, raised)
    /\ UNCHANGED <<pending_files, w_files, w_created, w_removed, w_returned,
                   w_stop_received>>

\* if self._running: time.sleep(self.check_interval)
WatcherSleep ==
    /\ w_pc = "sleep"
    /\ w_pc' = "loop"
    /\ UNCHANGED <<w_running, error_count, pending_files, w_files, w_created,
                   w_removed, w_returned, w_cycles, w_stop_received>>

WatchNext ==
    \/ OnCreated /\ UNCHANGED <<rateVars, auditVars, ralphVars, orchVars, postVars>>
    \/ \E e \in DropEvents :
           DropFileRemoved(e) /\ UNCHANGED <<rateVars, auditVars, ralphVars, orchVars, postVars>>
    \/ WatcherShutdown /\ UNCHANGED <<rateVars, auditVars, ralphVars, orchVars, postVars>>
    \/ WatcherStart /\ UNCHANGED <<rateVars, auditVars, ralphVars, orchVars, postVars>>
    \/ WatcherLoopTest /\ UNCHANGED <<rateVars, auditVars, ralphVars, orchVars, postVars>>
    \/ CheckCopy /\ UNCHANGED <<rateVars, auditVars, ralphVars, orchVars, postVars>>
    \/ CheckClear /\ UNCHANGED <<rateVars, auditVars, ralphVars, orchVars, postVars>>
    \/ \E raised \in BOOLEAN :
           CycleEnds(raised) /\ UNCHANGED <<rateVars, auditVars, ralphVars, orchVars, postVars>>
    \/ WatcherSleep /\ UNCHANGED <<rateVars, auditVars, ralphVars, orchVars, postVars>>

(***************************************************************************)
(* Claims about _RateLimitBucket (checked under SpecRate)                  *)
(***************************************************************************)

\* Number of earlier admitted calls whose timestamp is still inside the window
\* (now - window_seconds, now] of call k.
AdmittedInWindow(k) ==
    Cardinality({j \in 1..(k - 1) :
                    /\ allowLog[j].res
                    /\ allowLog[j].now > allowLog[k].now - window_seconds})

\* C4: sequential caller, bucket with max_count = m >= 1 starting empty: of the
\* calls made less than window_seconds after the first, exactly the first m
\* return true and every later one false; in general a call returns true exactly
\* when fewer than m admitted timestamps are younger than window_seconds, so a
\* timestamp that is window_seconds old or more no longer counts and the next
\* call is admitted again.
C4_SlidingWindowSequential ==
    ~overlapped =>
        \A k \in 1..Len(allowLog) :
            /\ (max_count >= 1 /\ allowLog[k].now - allowLog[1].now < window_seconds)
                  => (allowLog[k].res = (k <= max_count))
            /\ allowLog[k].res = (AdmittedInWindow(k) < max_count)

\* C4 witness: m calls admitted, call m+1 inside the window denied, and a call
\* after the window elapsed admitted again (m = 2: true, true, false, true).
C4_Witness ==
    /\ ~overlapped
    /\ max_count >= 2
    /\ Len(allowLog) = max_count + 2
    /\ \A k \in 1..max_count : allowLog[k].res
    /\ ~allowLog[max_count + 1].res
    /\ allowLog[max_count + 1].now - allowLog[1].now < window_seconds
    /\ allowLog[max_count + 2].res
    /\ AdmittedInWindow(max_count + 2) < max_count

\* C5: under any interleaving of concurrent callers, in no time interval of
\* length window_seconds (s .. s + window_seconds - 1 on the integer clock) are
\* more than max_count calls admitted.
C5_NoOverAdmission ==
    \A s \in 0..MaxTime :
        Cardinality({i \in 1..Len(admitAt) :
                        admitAt[i] >= s /\ admitAt[i] < s + window_seconds})
            <= max_count

\* C19: sequential caller, clock that never goes back: when an allow() or
\* current_count() call evaluated at time now returns, every retained
\* timestamp t satisfies now - window_seconds <= t <= now; and the bucket
\* never holds more than max_count timestamps.
C19_BucketInvariant ==
    [][ /\ Len(timestamps') <= max_count
        /\ ~overlapped =>
              \A c \in Threads :
                  (rl_pc[c] \in {"allow", "crl_allow", "count"} /\ rl_pc'[c] # rl_pc[c]) =>
                      \A i \in 1..Len(timestamps') :
                          /\ rl_now[c] - window_seconds <= timestamps'[i]
                          /\ timestamps'[i] <= rl_now[c]
      ]_vars

\* A sequential run in which the bucket is full and an admitted timestamp
\* has already been purged.
C19_Witness ==
    /\ ~overlapped
    /\ InFlight = {}
    /\ max_count >= 1
    /\ Len(timestamps) = max_count
    /\ Len(admitAt) > max_count

\* C20 ("file_op" has no bucket, "social_post" has one):
\* check_rate_limit for an action type without a bucket returns True,
\* every time, and changes no bucket; for an action type with a bucket that
\* holds max_count in-window timestamps it returns False.
C20_CheckRateLimit ==
    [][ /\ (crl' # crl /\ crl'.type = "file_op") =>
              (crl'.res = "true" /\ timestamps' = timestamps)
        /\ \A c \in Threads :
              (/\ rl_pc[c] = "crl_allow"
               /\ rl_pc'[c] # "crl_allow"
               /\ Cardinality({i \in 1..Len(timestamps) :
                                  timestamps[i] > rl_now[c] - window_seconds}) >= max_count)
              => (crl'.type = "social_post" /\ crl'.res = "false")
      ]_vars

\* A call on the full bucket has been denied (its warning is still to be
\* written) and a call for an action type without a bucket has then been
\* let through.
C20_Witness ==
    /\ max_count >= 1
    /\ Len(timestamps) = max_count
    /\ crl = [type |-> "file_op", res |-> "true"]
    /\ \E c \in Threads : rl_pc[c] = "crl_denied"

\* C21: when allow() returns False, the stored timestamp list after the call
\* is the list before the call: nothing appended, nothing removed (the purge
\* that precedes the test removed nothing either).  Any interleaving of callers.
C21_DeniedAllowKeepsBucket ==
    [][ (/\ Len(allowLog') = Len(allowLog) + 1
         /\ ~allowLog'[Len(allowLog')].res)
        => timestamps' = timestamps ]_vars

\* A caller has just been denied by a bucket that holds timestamps, after a
\* time at which an earlier admission had already left the window.
C21_Witness ==
    /\ allowLog # <<>>
    /\ ~allowLog[Len(allowLog)].res
    /\ timestamps # <<>>
    /\ Len(admitAt) > Len(timestamps)
    /\ \A c \in Threads : rl_pc[c] = "idle"

\* C32: under any interleaving of concurrent allow() callers the stored
\* timestamps are in non-decreasing order.
C32_TimestampsOrdered ==
    \A i, j \in 1..Len(timestamps) : i < j => timestamps[i] <= timestamps[j]

(***************************************************************************)
(* Claims about RalphLoop (checked under SpecRalph)                        *)
(***************************************************************************)

\* The task's state file, wherever self.task_file points.
TaskFile == IF r_task_file = "in_progress" THEN fs_inprog ELSE fs_done

\* C6: whenever _check_completion is evaluated with the task file present in
\* Done it returns true through the done-file branch, whatever the output and
\* the inbox hold, and the run ends completed; otherwise the marker decides
\* before the empty-inbox heuristic, and the first signal that matches wins.
C6_CompletionPrecedence ==
    r_check.evaluated =>
        /\ r_check.done_exists =>
              /\ r_check.result /\ r_check.method = "done_file"
              /\ r_completed /\ r_result = "true" /\ r_task_file = "done"
        /\ (~r_check.done_exists /\ r_check.marker) =>
              (r_check.result /\ r_check.method = "marker")
        /\ (~r_check.done_exists /\ ~r_check.marker) =>
              /\ r_check.result = (r_check.inbox_empty /\ r_check.desc_na)
              /\ r_check.method = (IF r_check.result THEN "inbox" ELSE "none")

\* C6 witness: a check with the file in Done, no marker in the output and a
\* non-empty inbox reported completion.
C6_Witness ==
    /\ r_check.evaluated
    /\ r_check.done_exists /\ ~r_check.marker /\ ~r_check.inbox_empty
    /\ r_check.result
    /\ r_pc = "done" /\ r_result = "true"

\* C7: a run with max_iterations = n >= 1 whose executor reported failure on
\* every invocation, with no stop signal, has performed exactly n iterations,
\* left the task file in status max_iterations_exceeded, written exactly one
\* alert file listing n iteration entries, and returned failure.
C7_Exhaustion ==
    (/\ r_pc = "done"
     /\ r_result # "raised"
     /\ r_running
     /\ \A i \in 1..Len(r_iterations) : ~r_iterations[i].success)
    =>
        /\ r_max >= 1
        /\ Len(r_iterations) = r_max
        /\ TaskFile.status = "max_iterations_exceeded"
        /\ TaskFile.iteration = r_max
        /\ r_alerts = <<r_max>>
        /\ r_result = "false"

\* C7 witness: max_iterations = 2, two failed iterations, one alert with 2 entries.
C7_Witness ==
    /\ r_pc = "done"
    /\ r_running
    /\ r_max = 2
    /\ r_iterations = <<[number |-> 1, success |-> FALSE], [number |-> 2, success |-> FALSE]>>
    /\ r_alerts = <<2>>
    /\ TaskFile.status = "max_iterations_exceeded"
    /\ r_result = "false"

\* C13: when a stop signal has arrived at some point of a run and no
\* iteration detected completion, the run ends with the task file marked
\* interrupted and returns failure.
C13_Cancellation ==
    (r_pc = "done" /\ ~r_running /\ ~r_completed /\ r_result # "raised")
        => (TaskFile.status = "interrupted" /\ r_result = "false")

\* C14: when run() has returned, in whatever terminal status, the task file
\* is in Done and no copy is left in In_Progress.
C14_LocationEncodesStatus ==
    (r_pc = "done" /\ r_result \in {"true", "false"})
        => (fs_done # NoFile /\ fs_inprog = NoFile)

\* C15: when the standard output of an executor run held TASK_COMPLETE,
\* whatever the exit code was, the run has ended as completed at that
\* iteration.
C15_MarkerCompletes ==
    r_marker => (r_completed /\ r_pc = "done" /\ r_result = "true")

\* C16: _run_claude turns every error of starting or running the
\* subprocess into the failure outcome: nothing is raised out of it, so run()
\* never ends by an exception of the executor.
C16_ExecutorBoundary ==
    r_result # "raised"

\* C22: run() returns True exactly when the run ended with the task file in
\* status completed; a run that ended by exhaustion or by interruption
\* returns False; and every run ends in one of these three ways.
C22_RunOutcome ==
    r_pc = "done" =>
        /\ r_result \in {"true", "false"}
        /\ TaskFile.status \in {"completed", "max_iterations_exceeded", "interrupted"}
        /\ (r_result = "true") <=> (TaskFile.status = "completed")

\* C24: an exception raised during an iteration of run() is caught at the
\* loop boundary and the loop goes on to the next iteration: an iteration ends
\* the run only by completing the task.
C24_LoopBoundary ==
    [][ (r_pc = "exec" /\ r_pc' = "done") => (r_completed' /\ r_result' = "true") ]_vars

\* C28: completion is evaluated after every iteration, whatever the executor
\* reported: an iteration that ends while the task file is in Done ends the
\* run as completed, also when the executor call failed.
C28_DoneFileCompletes ==
    [][ (/\ r_pc = "exec"
         /\ Len(r_iterations') = Len(r_iterations) + 1
         /\ fs_done # NoFile)
        => (r_completed' /\ r_pc' = "done" /\ r_result' = "true") ]_vars

\* C29: the iteration history is append-only and in step with the task
\* file: every executor invocation appends exactly one IterationRecord,
\* whatever its outcome, the records are numbered 1..k in order and earlier
\* records never change; and whenever run() writes the task file its
\* current_iteration field equals the number of records.
C29_IterationHistory ==
    [][ /\ (r_pc = "exec" /\ r_pc' # "exec") =>
              Len(r_iterations') = Len(r_iterations) + 1
        /\ Len(r_iterations') >= Len(r_iterations)
        /\ SubSeq(r_iterations', 1, Len(r_iterations)) = r_iterations
        /\ \A i \in 1..Len(r_iterations') : r_iterations'[i].number = i
        /\ (r_pc \in {"init", "loop", "exec"} /\ fs_inprog' # fs_inprog /\ fs_inprog' # NoFile) =>
              fs_inprog'.iteration = Len(r_iterations')
        /\ (r_pc \in {"init", "loop", "exec"} /\ fs_done' # fs_done /\ fs_done' # NoFile) =>
              fs_done'.iteration = Len(r_iterations')
      ]_vars

\* The executor invocations of the run so far: one per IterationRecord, plus
\* the one that is running or that raised.
Invocations ==
    Len(r_iterations) + (IF r_pc = "exec" \/ r_result = "raised" THEN 1 ELSE 0)

\* C30: with a non-negative max_iterations override n the run invokes the
\* executor at most n times; without an override at most 10 times.
C30_IterationBound ==
    Invocations <= (IF r_arg = <<>> THEN 10 ELSE r_arg[1])

\* C36: the runner writes its exhaustion alert exactly when the run ends with
\* the task file in status max_iterations_exceeded; a run that ends completed
\* or interrupted writes none, no alert exists while the run is still going,
\* and a run never writes more than one.
LastTaskStatus == IF r_task_file = "in_progress" THEN fs_inprog.status ELSE fs_done.status

C36_AlertDiscipline ==
    /\ Len(r_alerts) <= 1
    /\ (r_pc # "done") => r_alerts = <<>>
    /\ (r_pc = "done") =>
          /\ (Len(r_alerts) = 1) <=> (LastTaskStatus = "max_iterations_exceeded")
          /\ (Len(r_alerts) = 1) => r_result = "false"
          /\ (LastTaskStatus \in {"completed", "interrupted"}) => r_alerts = <<>>

C36_Witness ==
    /\ r_pc = "done"
    /\ LastTaskStatus = "max_iterations_exceeded"
    /\ Len(r_alerts) = 1
    /\ \E i \in 1..Len(r_iterations) : ~r_iterations[i].success

\* The two ways a dry run can complete: the task file was put into Done from
\* outside, or the empty-inbox heuristic applied at the last completion check.
DonePlacedExternally == r_check.done_exists \/ (fs_done # NoFile /\ ~r_completed)

InboxHeuristicApplies == r_desc_na /\ r_check.inbox_empty

DryRunExhausted ==
    /\ Len(r_iterations) = r_max
    /\ \A i \in 1..Len(r_iterations) : r_iterations[i].success
    /\ ~r_marker
    /\ LastTaskStatus = "max_iterations_exceeded"
    /\ Len(r_alerts) = 1
    /\ fs_inbox_md
    /\ r_result = "false"

\* C37 as stated: a finished dry run for which no Done file was placed from
\* outside and the empty-inbox heuristic did not apply has performed exactly
\* max_iterations simulated iterations, ended max_iterations_exceeded, written
\* an alert file and returned failure.
C37_DryRunExhausts ==
    (r_dry /\ r_pc = "done" /\ ~DonePlacedExternally /\ ~InboxHeuristicApplies)
        => DryRunExhausted

\* C37, amended: the same for every such dry run that no shutdown signal
\* interrupted.
C37_DryRunExhaustsUnlessInterrupted ==
    (/\ r_dry /\ r_pc = "done" /\ ~DonePlacedExternally /\ ~InboxHeuristicApplies
     /\ LastTaskStatus # "interrupted")
        => DryRunExhausted

C37_Witness ==
    /\ r_dry /\ r_pc = "done" /\ ~DonePlacedExternally /\ ~InboxHeuristicApplies
    /\ LastTaskStatus # "interrupted"
    /\ r_arg = <<MaxIterArg>>
    /\ Len(r_iterations) = MaxIterArg
    /\ audit_calls = MaxIterArg
    /\ Len(r_alerts) = 1

(***************************************************************************)
(* Claims about audit_log (checked under SpecAudit)                        *)
(***************************************************************************)

\* C8: every audit_log call, whatever its arguments, returns normally (never
\* raises), also when the entry cannot be written or serialised; and when the
\* audit file can be opened it has appended exactly one line.
C8_AuditNeverRaises ==
    audit_calls > 0 =>
        /\ audit_last.outcome = "returned"
        /\ audit_last.writable => audit_last.appended = 1

(***************************************************************************)
(* Claims about handle_create_post (checked under SpecPost)                *)
(***************************************************************************)

\* C23: every handle_create_post call, whatever its outcome (rejected by the
\* input checks, rate limited, dry run, published, failed), makes exactly one
\* audit_log call.
C23_OneAuditRecordPerAttempt ==
    [][ post_calls' = post_calls + 1 => audit_calls' = audit_calls + 1 ]_vars

TimesReturned(e) == Cardinality({i \in 1..Len(w_returned) : w_returned[i] = e})

\* C39: under every interleaving of on_created (observer thread) with
\* check_for_updates (polling loop), no recorded file-created event is
\* returned twice, and every recorded event whose file is still in the drop
\* folder has been returned or is still waiting in pending_files (or in the
\* copy a running check_for_updates holds).
C39_NoEventLostOrDuplicated ==
    \A e \in 1..w_created :
        /\ TimesReturned(e) <= 1
        /\ (TimesReturned(e) = 0 /\ e \notin w_removed) =>
              \/ e \in Elems(pending_files)
              \/ w_pc = "clear" /\ e \in Elems(w_files)

\* Number of cycles at the end of the history that raised, one after another
Streak(cycles) ==
    CHOOSE k \in 0..Len(cycles) :
        /\ \A i \in (Len(cycles) - k + 1)..Len(cycles) : cycles[i]
        /\ (k = Len(cycles) \/ ~cycles[Len(cycles) - k])

C1_DetectNewExactlyOnce ==
    [][ /\ (total_scans' = total_scans + 1) =>
              /\ (ScanFolder(dir_needs_action) \ known_needs_action) \subseteq o_batch'
              /\ o_batch' \cap na_reported = {}
        /\ (o_pc = "scan_ap" /\ o_pc' # "scan_ap") =>
              /\ (ScanFolder(dir_approved) \ known_approved) \subseteq o_batch'
              /\ o_batch' \cap ap_reported = {}
      ]_vars

\* A second scan of Needs_Action has just run: a file reported by the first
\* one is still there and is not in the new batch.
C1_Witness ==
    /\ o_pc = "scan_ap"
    /\ total_scans = 2
    /\ \E f \in na_reported : f \in dir_needs_action /\ f \notin o_batch

\* C2: when the first _run_skill attempt of a _run_skill_with_retry call
\* fails and the second succeeds, the call returns success after exactly
\* two attempts, writes no alert file, and leaves total_errors and
\* last_error as they were when it was entered.
C2_RetryThenSuccess ==
    (/\ Len(o_call.outcomes) >= 2
     /\ o_call.outcomes[1] = "fail"
     /\ o_call.outcomes[2] = "ok")
    => /\ Len(o_call.outcomes) = 2
       /\ o_pc = "ret"
       /\ o_success
       /\ alerts_written = o_call.alerts0
       /\ total_errors = o_call.errors0
       /\ last_error = o_call.last_error0

C2_Witness ==
    /\ o_pc = "ret"
    /\ o_call.outcomes = <<"fail", "ok">>
    /\ ~o_dry

\* C3: when both attempts of a _run_skill_with_retry call fail, the call
\* returns failure after exactly two attempts (there is no third),
\* total_errors is one more than at entry, last_error names the skill, and
\* exactly one alert file has been written, into Needs_Action.
C3_RetryThenFailure ==
    (/\ Len(o_call.outcomes) >= 2
     /\ o_call.outcomes[1] = "fail"
     /\ o_call.outcomes[2] = "fail")
    => /\ Len(o_call.outcomes) = 2
       /\ o_pc = "ret"
       /\ ~o_success
       /\ total_errors = o_call.errors0 + 1
       /\ last_error = [skill |-> o_skill, time |-> o_now]
       /\ alerts_written = o_call.alerts0 + 1
       /\ AlertPath(alerts_written) \in dir_needs_action

C3_Witness ==
    /\ o_pc = "ret"
    /\ o_call.outcomes = <<"fail", "fail">>
    /\ o_skill = "process_inbox"

\* C9: over all the evaluations of _should_run_briefing made in a run, it
\* returns True at most once for any one UTC date, however often it is
\* evaluated in the matching hour and whatever became of the dispatch.
C9_BriefingOncePerDate ==
    \A i, j \in DOMAIN brief_fires :
        i # j => brief_fires[i] # brief_fires[j]

\* Two evaluations in the matching hour of one date, one firing, and the
\* ceo_briefing dispatch that followed it failed on both attempts.
C9_Witness ==
    /\ Len(brief_evals) >= 2
    /\ brief_evals[1] = brief_evals[2]
    /\ brief_fires = <<brief_evals[1]>>
    /\ last_error.skill = "ceo_briefing"

\* C10: the state of a tracked item only ever changes to a later state of
\* DETECTED, PROCESSING, AWAITING_APPROVAL, APPROVED, EXECUTING, DONE: no
\* step takes the tracker of a file name to an earlier state.
C10_ForwardOnly ==
    [][ \A k \in Names :
            (items[k] # NoItem /\ items'[k] # NoItem)
                => Rank(items'[k].state) >= Rank(items[k].state)
      ]_vars

\* C11: an exception raised inside _tick is caught in run(), adds exactly
\* one to total_errors and leaves the loop running; a health snapshot of
\* the tick just ended is on disk before the next tick starts; and no step
\* of the loop body lets an exception leave run(): from the end of a tick
\* run() always reaches the wait.
C11_TickBoundary ==
    [][ /\ (o_pc = "raised" /\ o_cont # "init") =>
              (total_errors' = total_errors + 1 /\ o_pc' = "tick_end")
        /\ (total_scans' = total_scans + 1 /\ total_scans > 0) =>
              health.total_scans = total_scans
        /\ (o_pc = "tick_end") => o_pc' = "wait"
      ]_vars

\* C12: once a stop signal has been received no new tick is started, and
\* when the loop has exited the health snapshot on disk says 'stopped'.
C12_Shutdown ==
    [][ /\ stop_received => total_scans' = total_scans
        /\ (o_pc' = "stopped") => health'.status = "stopped"
      ]_vars

\* C17: a file that was in Needs_Action or Approved when run() took its
\* initial snapshot, and has stayed there, is never in a batch reported as
\* new, and while a folder holds nothing but such files no dispatch is made
\* for it.
C17_StartupSnapshot ==
    [][ /\ (total_scans' = total_scans + 1) =>
              /\ o_batch' \cap na_initial = {}
              /\ (ScanFolder(dir_needs_action) \subseteq na_initial) => o_pc' = "scan_ap"
        /\ (o_pc = "scan_ap" /\ o_pc' # "scan_ap") =>
              /\ o_batch' \cap ap_initial = {}
              /\ (ScanFolder(dir_approved) \subseteq ap_initial) => o_pc' = "sched_dash"
      ]_vars

\* The first scan of Approved reports a file that arrived during the initial
\* dashboard dispatch, next to a file of the initial snapshot it leaves out.
C17_Witness ==
    /\ o_pc = "skill"
    /\ o_cont = "ap"
    /\ total_scans = 1
    /\ o_batch # {}
    /\ ap_initial \cap dir_approved # {}

\* C18: two detected files with different paths are two items: in every
\* batch handed to _handle_new_items or _handle_approved, files with
\* different paths have different tracker keys.
C18_IdentityIsPath ==
    \A f, g \in o_batch : f # g => Name(f) # Name(g)

C26_ApprovedBatch ==
    [][ /\ (o_pc = "scan_ap" /\ o_batch' # {}) =>
              /\ \A f \in o_batch' : items'[Name(f)].state = "APPROVED"
              /\ o_pc' = "skill" /\ o_skill' = "execute_approved" /\ o_attempt' = 1
              /\ o_call'.outcomes = <<>>
        /\ (o_pc = "ret" /\ o_cont = "ap") =>
              /\ o_skill = "execute_approved"
              /\ \/ o_call.outcomes \in {<<"ok">>, <<"dry_run">>, <<"fail", "ok">>} /\ o_success
                 \/ o_call.outcomes = <<"fail", "fail">> /\ ~o_success
              /\ o_success =>
                    /\ \A f \in o_batch : items'[Name(f)].state = "DONE"
                    /\ o_pc' = "skill" /\ o_skill' = "update_dashboard"
              /\ ~o_success => o_pc' # "skill"
        /\ (o_pc = "ret" /\ o_cont = "ap_dash") =>
              /\ \A f \in o_batch : items'[Name(f)].state = "DONE"
              /\ o_pc' # "skill"
      ]_vars

\* _handle_approved has returned for a batch of two files after a dispatch
\* that succeeded.
C26_Witness ==
    /\ o_pc = "sched_dash"
    /\ Cardinality(o_batch) = 2
    /\ \A f \in o_batch : items[Name(f)].state = "DONE"

\* C27: when a batch dispatch has failed on both attempts, no item of the
\* batch changes state (new items stay DETECTED, approved items stay APPROVED)
\* and every item of the batch has a non-empty error; and an item that
\* carries an error still makes the transitions of a later batch.
C27_FailureHalts ==
    [][ /\ (o_pc = "ret" /\ o_cont = "ni" /\ ~o_success) =>
              \A f \in o_batch :
                  /\ items[Name(f)].state = "DETECTED"
                  /\ items'[Name(f)].state = "DETECTED"
                  /\ items'[Name(f)].error # "none"
        /\ (o_pc = "ret" /\ o_cont = "ap" /\ ~o_success) =>
              \A f \in o_batch :
                  /\ items[Name(f)].state = "APPROVED"
                  /\ items'[Name(f)].state = "APPROVED"
                  /\ items'[Name(f)].error # "none"
        /\ (o_pc = "scan_ap" /\ o_batch' # {}) =>
              \A f \in o_batch' :
                  items[Name(f)].error # "none" => items'[Name(f)].state = "APPROVED"
        /\ (o_pc = "ret" /\ o_cont = "ap" /\ o_success) =>
              \A f \in o_batch :
                  items[Name(f)].error # "none" => items'[Name(f)].state = "DONE"
      ]_vars

\* An item whose process_inbox dispatch failed twice has later been approved
\* and executed, still carrying the error.
C27_Witness ==
    \E k \in Names :
        /\ items[k].error = "process_inbox failed"
        /\ items[k].state = "DONE"
        /\ total_errors >= 1

C33_AlertFeedback ==
    [][ /\ (alerts_written' = alerts_written + 1) =>
              /\ AlertPath(alerts_written') \in dir_needs_action'
              /\ AlertPath(alerts_written') \notin known_needs_action'
        /\ (o_pc = "top" /\ total_scans' = total_scans + 1) =>
              \A a \in AlertPaths :
                  (a \in dir_needs_action /\ a \notin known_needs_action) =>
                      (/\ a \in o_batch'
                       /\ a \in known_needs_action'
                       /\ o_pc' = "skill" /\ o_skill' = "process_inbox")
        /\ (/\ o_pc = "skill" /\ o_cont = "ni"
            /\ o_call'.outcomes = <<"fail", "fail">>) =>
              alerts_written' = alerts_written + 1
      ]_vars

\* No external file has arrived; the first alert was reported by a tick, its
\* process_inbox dispatch failed twice and a second alert was written.
C33_Witness ==
    /\ file_events = 0
    /\ o_pc = "ret"
    /\ o_cont = "ni"
    /\ ~o_success
    /\ o_batch = {AlertPath(1)}
    /\ alerts_written = 2
    /\ AlertPath(2) \in dir_needs_action \ known_needs_action

\* C34: after the dispatch of a batch has failed on both attempts, no later
\* tick puts a file of that batch, still present since, into a batch again,
\* and the tracker of such a file stays in DETECTED (Needs_Action) resp.
\* APPROVED (Approved).
C34_NoRedispatch ==
    [][ /\ (o_batch' # o_batch /\ o_pc = "top") =>
              o_batch' \cap known_needs_action = {}
        /\ (o_batch' # o_batch /\ o_pc = "scan_ap") =>
              o_batch' \cap known_approved = {}
        /\ \A f \in known_needs_action \cap dir_needs_action \cap dir_needs_action' :
              (/\ items[Name(f)].state = "DETECTED"
               /\ items[Name(f)].error = "process_inbox failed")
              => items'[Name(f)].state = "DETECTED"
        /\ \A f \in known_approved \cap dir_approved \cap dir_approved' :
              (/\ items[Name(f)].state = "APPROVED"
               /\ items[Name(f)].error = "execute_approved failed")
              => items'[Name(f)].state = "APPROVED"
      ]_vars

\* C35: every health snapshot the orchestrator writes lists item states
\* among DETECTED, AWAITING_APPROVAL, APPROVED and DONE only; between ticks no
\* tracker is in IDLE, PROCESSING or EXECUTING; and no tracker entry is ever
\* removed.
ObservableStates == {"DETECTED", "AWAITING_APPROVAL", "APPROVED", "DONE"}

TrackedKeys(its) == {k \in Names : its[k] # NoItem}

C35_ObservableStates ==
    [][ /\ (health' # health) =>
              /\ DOMAIN health'.items = TrackedKeys(items)
              /\ \A k \in DOMAIN health'.items :
                    health'.items[k] \in ObservableStates
        /\ (o_pc' \in {"tick_end", "wait", "top", "stopped", "raised", "crashed"}) =>
              \A k \in TrackedKeys(items') : items'[k].state \in ObservableStates
        /\ TrackedKeys(items) \subseteq TrackedKeys(items')
      ]_vars

C35_Witness ==
    /\ health.status = "running"
    /\ \E k \in DOMAIN health.items : health.items[k] = "DONE"
    /\ \E k \in DOMAIN health.items :
          health.items[k] = "DETECTED" /\ items[k].error = "process_inbox failed"

(***************************************************************************)
(* Specifications                                                          *)
(***************************************************************************)
InitRate ==
    RateInit /\ AuditIdle /\ RalphIdle /\ OrchIdle /\ PostIdle /\ WatchIdle

InitAudit ==
    AuditInit /\ RateIdle /\ RalphIdle /\ OrchIdle /\ PostIdle /\ WatchIdle

Init ==
    OrchInit /\ RateIdle /\ AuditIdle /\ RalphIdle /\ PostIdle /\ WatchIdle

InitRalph ==
    RalphInit /\ RateIdle /\ AuditIdle /\ OrchIdle /\ PostIdle /\ WatchIdle

InitPost ==
    PostInit /\ RateInit /\ AuditInit /\ RalphIdle /\ OrchIdle /\ WatchIdle

InitWatch ==
    WatchInit /\ RateIdle /\ AuditIdle /\ RalphIdle /\ OrchIdle /\ PostIdle

SpecWatch == InitWatch /\ [][WatchNext]_vars
SpecPost  == InitPost /\ [][PostNext]_vars
SpecRate  == InitRate /\ [][RateNext]_vars
SpecAudit == InitAudit /\ [][AuditNext]_vars
SpecRalph == InitRalph /\ [][RalphNext]_vars
Next      == OrchNext
Spec      == Init /\ [][Next]_vars

====
